---- MODULE Spec2Model ----
(***************************************************************************)
(* Model of the profile extraction and cross-validation engine of the      *)
(* beneficiary backend:                                                    *)
(*   src/src/common/helper/profileUpdate/profile-update.ts   (builder)     *)
(*   src/src/common/profile-validator/profile-validator.service.ts         *)
(*                                                                         *)
(* JavaScript values are tagged records: null, undefined, strings (as      *)
(* sequences of one-character strings), numbers (integers), NaN and plain  *)
(* objects (functions from keys to values).  A raised exception is the     *)
(* value Threw.  Identifiers compared with === against literals of the     *)
(* code (field names, doc types, vc types) are TLA+ strings.               *)
(***************************************************************************)
EXTENDS Integers, Sequences, FiniteSets, TLC

VARIABLES
    fn,               \* the operation that has been applied ("none" before)
    rawValue,         \* transforms: the raw value found in the VC
    field,            \* transforms: the profile field asked for
    out,              \* transforms: the value returned
    vcs,              \* builder / validator: the VC set of the user
    profileFields,    \* builder: configFiles/vcArray.json
    vcPaths,          \* builder: vcPaths/<docType>.json, per doc type
    userProfile,      \* builder: buildProfile's userProfile
    validationData,   \* builder: buildProfile's validationData
    consulted,        \* builder: per field, the doc types handed to getFieldValueFromVC
    userProfileInfo,  \* validator: the stored profile (keys in order, and values)
    config,           \* validator: config.json
    docToFieldMaps,   \* validator: docToFieldMaps/<fileName>.json, per doc type
    fieldValues,      \* validator: fieldValues.json
    nameFieldsPosition, \* validator: nameFieldsPosition.json
    argFileName,      \* validator: the fileName of one matchAttributeValue call
    argAttribute,     \* validator: the profileAttribute of that call
    matched,          \* validator: what that call returned
    response,         \* validator: what matchUserData returned
    userDocs,         \* builder: the document rows handed to buildVCs
    batch,            \* populateProfile: the users handed to it
    pc,               \* populateProfile: the step it is at
    batchPos,         \* populateProfile: index of the user being processed
    attempted,        \* populateProfile: the users whose processing was started, in order
    logged,           \* populateProfile: the users whose failure was logged, in order
    returned,         \* populateProfile: what the call returned
    store,            \* UserService: the rows of user_docs
    upload,           \* UserService: the createUserDocsNew call in progress, if any
    uploadsDone,      \* UserService: number of document calls made so far
    uploadEnded,      \* UserService: what the createUserDocsNew call that ended last did
    keycloakAccounts, \* registration: the accounts held by Keycloak
    dbUsers,          \* registration: the rows of users, by keycloak id
    userInfos,        \* registration: the rows of user_info, by keycloak id
    registration,     \* registration: the createUserInfo call in progress, if any
    registrationsDone, \* registration: number of createUserInfo calls made so far
    deleteUserFailed,  \* registration: the accounts Keycloak refused to delete
    applications, \* cron: the rows of user_applications, status by application id
    cronRuns, \* cron: the runs of updateApplicationStatusCron started so far
    usersRow, \* persistence: the row of users of the person whose profile is rebuilt
    userInfoRow, \* persistence: that person's row of user_info, if any
    op, \* persistence: the operation that opened query runners last
    runners, \* persistence: the query runners that operation has created
    opsDone \* persistence: number of operations started so far

vars == <<fn, rawValue, field, out, vcs, profileFields, vcPaths,
          userProfile, validationData, consulted,
          userProfileInfo, config, docToFieldMaps, fieldValues, nameFieldsPosition,
          argFileName, argAttribute, matched, response,
          userDocs, batch, pc, batchPos, attempted, logged, returned,
          store, upload, uploadsDone, uploadEnded,
          keycloakAccounts, dbUsers, userInfos, registration, registrationsDone,
          deleteUserFailed,
          applications, cronRuns,
          usersRow, userInfoRow, op, runners, opsDone>>

-----------------------------------------------------------------------------
(* JavaScript values *)

Null == [t |-> "null"]
Undefined == [t |-> "undefined"]
NaN == [t |-> "nan"]
Threw == [t |-> "throw"]
Str(s) == [t |-> "str", s |-> s]
Num(n) == [t |-> "num", n |-> n]
Obj(o) == [t |-> "obj", o |-> o]

IsStr(v) == v.t = "str"
IsNum(v) == v.t = "num"
IsObj(v) == v.t = "obj"

\* ToBoolean: what `if (value)` and `!value` test
Truthy(v) ==
    CASE v.t = "null" -> FALSE
      [] v.t = "undefined" -> FALSE
      [] v.t = "nan" -> FALSE
      [] v.t = "str" -> v.s # <<>>
      [] v.t = "num" -> v.n # 0
      [] OTHER -> TRUE

-----------------------------------------------------------------------------
(* Strings *)

Digits == <<"0", "1", "2", "3", "4", "5", "6", "7", "8", "9">>
IsDigit(c) == \E i \in 1..10 : Digits[i] = c
DigitVal(c) == (CHOOSE i \in 1..10 : Digits[i] = c) - 1

\* String.prototype.split(sep) for a one-character separator
RECURSIVE SplitFrom(_, _, _)
SplitFrom(s, sep, cur) ==
    IF s = <<>> THEN <<cur>>
    ELSE IF Head(s) = sep THEN <<cur>> \o SplitFrom(Tail(s), sep, <<>>)
    ELSE SplitFrom(Tail(s), sep, Append(cur, Head(s)))

Split(s, sep) == SplitFrom(s, sep, <<>>)

\* the value of a run of decimal digits
RECURSIVE DecVal(_)
DecVal(s) == IF s = <<>> THEN 0 ELSE 10 * DecVal(SubSeq(s, 1, Len(s) - 1)) + DigitVal(s[Len(s)])

AllDigits(s) == \A i \in 1..Len(s) : IsDigit(s[i])

\* n written with at least w digits, zero padded (date-fns format tokens yyyy, MM, dd)
RECURSIVE Pad(_, _)
Pad(n, w) == IF w <= 1 /\ n < 10 THEN <<Digits[n + 1]>>
             ELSE Append(Pad(n \div 10, w - 1), Digits[(n % 10) + 1])

-----------------------------------------------------------------------------
(* Path resolver of the builder *)

\* getValue(vc, pathValue): reduce over pathValue.split('.') from vc.content
RECURSIVE getValueReduce(_, _)
getValueReduce(acc, parts) ==
    IF parts = <<>> THEN acc
    ELSE LET part == Head(parts)
             next == IF ~Truthy(acc) THEN Null
                     ELSE IF IsObj(acc) /\ part \in DOMAIN acc.o /\ acc.o[part] # Undefined
                          THEN acc.o[part]
                     ELSE Null
         IN getValueReduce(next, Tail(parts))

getValue(vc, pathValue) ==
    IF ~Truthy(pathValue) THEN Null
    ELSE getValueReduce(vc.content, Split(pathValue.s, "."))

-----------------------------------------------------------------------------
(* Dates: formatDateToISO and the library calls it makes *)

InvalidDate == [ok |-> FALSE]
ValidDate(y, m, d) == [ok |-> TRUE, y |-> y, m |-> m, d |-> d]

IsLeap(y) == (y % 4 = 0 /\ y % 100 # 0) \/ y % 400 = 0
DaysInMonth(y, m) ==
    IF m = 2 THEN (IF IsLeap(y) THEN 29 ELSE 28)
    ELSE IF m \in {4, 6, 9, 11} THEN 30 ELSE 31

\* number of leading digits of s, at most n
RECURSIVE LeadingDigits(_, _)
LeadingDigits(s, n) ==
    IF n = 0 \/ s = <<>> \/ ~IsDigit(Head(s)) THEN 0
    ELSE 1 + LeadingDigits(Tail(s), n - 1)

\* date-fns parse(inputDate, dateFormat, new Date()): a numeric token of n
\* letters takes 1..n digits, any other character of the format is literal,
\* and input left over makes the date invalid
RECURSIVE dfParse(_, _, _)
dfParse(s, toks, acc) ==
    IF toks = <<>> THEN
        IF s # <<>> THEN InvalidDate
        ELSE IF acc.y > 0 /\ acc.m \in 1..12 /\ acc.d >= 1 /\ acc.d <= DaysInMonth(acc.y, acc.m)
             THEN ValidDate(acc.y, acc.m, acc.d)
        ELSE InvalidDate
    ELSE LET tok == Head(toks) IN
        IF tok \in {"-", "/"} THEN
            IF s # <<>> /\ Head(s) = tok THEN dfParse(Tail(s), Tail(toks), acc)
            ELSE InvalidDate
        ELSE LET k == LeadingDigits(s, IF tok = "yyyy" THEN 4 ELSE 2)
                 n == DecVal(SubSeq(s, 1, k))
                 rest == SubSeq(s, k + 1, Len(s))
             IN IF k = 0 THEN InvalidDate
                ELSE dfParse(rest, Tail(toks),
                             IF tok = "yyyy" THEN [acc EXCEPT !.y = n]
                             ELSE IF tok = "MM" THEN [acc EXCEPT !.m = n]
                             ELSE [acc EXCEPT !.d = n])

parse(s, toks) == dfParse(s, toks, [y |-> 0, m |-> 0, d |-> 0])

\* date-fns format(date, 'yyyy-MM-dd')
format(dt) == Pad(dt.y, 4) \o <<"-">> \o Pad(dt.m, 2) \o <<"-">> \o Pad(dt.d, 2)

possibleFormats == <<
    <<"yyyy", "-", "MM", "-", "dd">>,
    <<"dd", "-", "MM", "-", "yyyy">>,
    <<"MM", "-", "dd", "-", "yyyy">>,
    <<"yyyy", "/", "MM", "/", "dd">>,
    <<"dd", "/", "MM", "/", "yyyy">>,
    <<"MM", "/", "dd", "/", "yyyy">> >>

\* new Date(inputDate) of the Node.js (V8) runtime, for the strings of the
\* model: three digit groups joined by '-' or '/', or a word without digits.
\* YYYY-MM-DD is read as an ISO date; any other three groups go to V8's
\* legacy parser, which reads year-month-day when the first group is no day
\* of a month (1..31) and month-day-year otherwise, and rejects a month
\* outside 1..12 or a day outside 1..31.  Everything else is an Invalid Date.
SepPositions(s) == {i \in 1..Len(s) : s[i] \in {"-", "/"}}

ThreeGroups(s) ==
    /\ Cardinality(SepPositions(s)) = 2
    /\ \A i \in 1..Len(s) : i \in SepPositions(s) \/ IsDigit(s[i])
    /\ LET p == CHOOSE i \in SepPositions(s) : \A j \in SepPositions(s) : i <= j
           q == CHOOSE i \in SepPositions(s) : \A j \in SepPositions(s) : i >= j
       IN p > 1 /\ q > p + 1 /\ q < Len(s)

Group(s, k) ==
    LET p == CHOOSE i \in SepPositions(s) : \A j \in SepPositions(s) : i <= j
        q == CHOOSE i \in SepPositions(s) : \A j \in SepPositions(s) : i >= j
    IN IF k = 1 THEN SubSeq(s, 1, p - 1)
       ELSE IF k = 2 THEN SubSeq(s, p + 1, q - 1)
       ELSE SubSeq(s, q + 1, Len(s))

IsIsoDate(s) ==
    /\ ThreeGroups(s)
    /\ \A i \in SepPositions(s) : s[i] = "-"
    /\ Len(Group(s, 1)) = 4 /\ Len(Group(s, 2)) = 2 /\ Len(Group(s, 3)) = 2

\* MakeDay: a day past the end of the month runs over into the next month
Overflow(y, m, d) ==
    IF d <= DaysInMonth(y, m) THEN ValidDate(y, m, d)
    ELSE IF m = 12 THEN ValidDate(y + 1, 1, d - DaysInMonth(y, m))
    ELSE ValidDate(y, m + 1, d - DaysInMonth(y, m))

LegacyYear(y) == IF y <= 49 THEN y + 2000 ELSE IF y <= 99 THEN y + 1900 ELSE y

NativeDate(s) ==
    IF ~ThreeGroups(s) THEN InvalidDate
    ELSE LET a == DecVal(Group(s, 1))
             b == DecVal(Group(s, 2))
             c == DecVal(Group(s, 3))
         IN IF IsIsoDate(s) THEN
                (IF b \in 1..12 /\ c \in 1..31 THEN Overflow(a, b, c) ELSE InvalidDate)
            ELSE IF a \notin 1..31 THEN
                (IF b \in 1..12 /\ c \in 1..31 THEN Overflow(LegacyYear(a), b, c) ELSE InvalidDate)
            ELSE
                (IF a \in 1..12 /\ b \in 1..31 THEN Overflow(LegacyYear(c), a, b) ELSE InvalidDate)

RECURSIVE tryFormats(_, _)
tryFormats(s, fmts) ==
    IF fmts = <<>> THEN Null
    ELSE LET parsedDate == parse(s, Head(fmts))
         IN IF parsedDate.ok THEN Str(format(parsedDate))
            ELSE tryFormats(s, Tail(fmts))

formatDateToISO(inputDate) ==
    LET nativeParsedDate == NativeDate(inputDate.s)
    IN IF nativeParsedDate.ok THEN Str(format(nativeParsedDate))
       ELSE tryFormats(inputDate.s, possibleFormats)

handleDobValue(vc, pathValue) ==
    LET value == getValue(vc, pathValue)
    IN IF ~Truthy(value) THEN Null ELSE formatDateToISO(value)

-----------------------------------------------------------------------------
(* Income and name transforms *)

\* sanitize, forgetting the apostrophe
sanitize_noApostrophe(s) == SelectSeq(s, LAMBDA c : c \notin {",", " "})

\* value.replace(/[, ']/g, '')
sanitize(s) == SelectSeq(s, LAMBDA c : c \notin {",", " ", "'"})

\* String.prototype.trim, for the white space of the model (the space)
RECURSIVE trimStart(_)
trimStart(s) == IF s # <<>> /\ Head(s) = " " THEN trimStart(Tail(s)) ELSE s
RECURSIVE trimEnd(_)
trimEnd(s) == IF s # <<>> /\ s[Len(s)] = " " THEN trimEnd(SubSeq(s, 1, Len(s) - 1)) ELSE s
trim(s) == trimEnd(trimStart(s))

\* Number(string) for strings of digits, signs, spaces and other characters:
\* white space around is dropped, the empty string is 0, an optionally signed
\* run of digits is its value, anything else NaN
NumberOfTrimmed(s) ==
    IF s = <<>> THEN Num(0)
    ELSE IF AllDigits(s) THEN Num(DecVal(s))
    ELSE IF Head(s) \in {"-", "+"} /\ Len(s) > 1 /\ AllDigits(Tail(s))
         THEN Num((IF Head(s) = "-" THEN -1 ELSE 1) * DecVal(Tail(s)))
    ELSE NaN

Number(s) == NumberOfTrimmed(trim(s))

handleIncomeValue(vc, pathValue) ==
    LET value == getValue(vc, pathValue)
    IN IF value = Null THEN Null
       ELSE IF value = NaN THEN Null
       ELSE IF IsNum(value) THEN (IF value.n < 0 THEN Null ELSE value)
       ELSE IF IsStr(value) THEN Number(sanitize(value.s))
       ELSE Threw

\* obj[key] of a parsed JSON object: undefined when the key is absent
Prop(o, key) == IF key \in DOMAIN o THEN o[key] ELSE Undefined

\* handleNameFields, taking a middle name from any name of three or more tokens
handleNameFields_threeOrMore(vc, paths, fld) ==
    LET fullname == getValue(vc, Prop(paths, "name"))
    IN IF ~Truthy(fullname) THEN Null
       ELSE IF ~IsStr(fullname) THEN Threw
       ELSE LET nameParts == Split(fullname.s, " ")
                middleName == IF Len(nameParts) >= 3 THEN Str(nameParts[2]) ELSE Null
            IN CASE fld = "firstName" -> Str(nameParts[1])
                 [] fld = "middleName" -> middleName
                 [] fld = "lastName" ->
                      IF Len(nameParts) >= 2 THEN Str(nameParts[Len(nameParts)]) ELSE Null
                 [] fld = "fatherName" -> middleName
                 [] OTHER -> Null

handleNameFields(vc, paths, fld) ==
    LET fullname == getValue(vc, Prop(paths, "name"))
    IN IF ~Truthy(fullname) THEN Null
       ELSE IF ~IsStr(fullname) THEN Threw
       ELSE LET nameParts == Split(fullname.s, " ")
                firstName == Str(nameParts[1])
                middleName == IF Len(nameParts) = 3 THEN Str(nameParts[2]) ELSE Null
                lastName == IF Len(nameParts) >= 2 THEN Str(nameParts[Len(nameParts)]) ELSE Null
            IN CASE fld = "firstName" -> firstName
                 [] fld = "middleName" -> middleName
                 [] fld = "lastName" -> lastName
                 [] fld = "fatherName" -> middleName
                 [] OTHER -> Null

-----------------------------------------------------------------------------
(* Class and disability-type transforms *)

romanMap(c) ==
    CASE c = "I" -> Num(1) [] c = "V" -> Num(5) [] c = "X" -> Num(10)
      [] c = "L" -> Num(50) [] c = "C" -> Num(100) [] c = "D" -> Num(500)
      [] c = "M" -> Num(1000) [] OTHER -> Undefined

\* the loop of romanToInt from index i on; total is a number or NaN
RECURSIVE romanLoop(_, _, _)
romanLoop(roman, i, total) ==
    IF i > Len(roman) THEN total
    ELSE LET current == romanMap(roman[i])
             next == IF i < Len(roman) /\ Truthy(romanMap(roman[i + 1]))
                     THEN romanMap(roman[i + 1]) ELSE Num(0)
         IN IF current = Undefined \/ total = NaN THEN romanLoop(roman, i + 1, NaN)
            ELSE IF current.n < next.n THEN romanLoop(roman, i + 1, Num(total.n - current.n))
            ELSE romanLoop(roman, i + 1, Num(total.n + current.n))

\* a scan that adds every symbol, never subtracting
RECURSIVE romanLoop_additive(_, _, _)
romanLoop_additive(roman, i, total) ==
    IF i > Len(roman) THEN total
    ELSE LET current == romanMap(roman[i])
         IN IF current = Undefined \/ total = NaN THEN romanLoop_additive(roman, i + 1, NaN)
            ELSE romanLoop_additive(roman, i + 1, Num(total.n + current.n))

romanToInt_additive(roman) ==
    IF IsStr(roman) THEN romanLoop_additive(roman.s, 1, Num(0)) ELSE Num(0)

\* romanToInt(roman); a value without a length (a number, an object) gives 0
romanToInt(roman) == IF IsStr(roman) THEN romanLoop(roman.s, 1, Num(0)) ELSE Num(0)

handleClassField(vc, pathValue) ==
    LET value == getValue(vc, pathValue)
    IN IF ~Truthy(value) THEN Null
       ELSE LET intValue == romanToInt(value)
            IN IF ~Truthy(intValue) THEN value ELSE intValue

UpperCase == <<"A", "B", "C", "D", "E", "F", "G", "H", "I", "J", "K", "L", "M",
               "N", "O", "P", "Q", "R", "S", "T", "U", "V", "W", "X", "Y", "Z">>
LowerCase == <<"a", "b", "c", "d", "e", "f", "g", "h", "i", "j", "k", "l", "m",
               "n", "o", "p", "q", "r", "s", "t", "u", "v", "w", "x", "y", "z">>
IsUpper(c) == \E i \in 1..26 : UpperCase[i] = c
IsLower(c) == \E i \in 1..26 : LowerCase[i] = c
lowerChar(c) == IF IsUpper(c) THEN LowerCase[CHOOSE i \in 1..26 : UpperCase[i] = c] ELSE c

\* String.prototype.toLowerCase
toLowerCase(s) == [i \in 1..Len(s) |-> lowerChar(s[i])]

\* a replacement of every single character outside [a-z0-9], run or not
RECURSIVE replaceNonAlnumEach(_, _)
replaceNonAlnumEach(s, inRun) ==
    IF s = <<>> THEN <<>>
    ELSE IF IsLower(Head(s)) \/ IsDigit(Head(s))
         THEN <<Head(s)>> \o replaceNonAlnumEach(Tail(s), FALSE)
    ELSE <<"_">> \o replaceNonAlnumEach(Tail(s), TRUE)

\* s.replace(/[^a-z0-9]+/g, '_')
RECURSIVE replaceNonAlnumRuns(_, _)
replaceNonAlnumRuns(s, inRun) ==
    IF s = <<>> THEN <<>>
    ELSE IF IsLower(Head(s)) \/ IsDigit(Head(s))
         THEN <<Head(s)>> \o replaceNonAlnumRuns(Tail(s), FALSE)
    ELSE IF inRun THEN replaceNonAlnumRuns(Tail(s), TRUE)
    ELSE <<"_">> \o replaceNonAlnumRuns(Tail(s), TRUE)

handleDisabilityTypeField(vc, pathValue) ==
    LET value == getValue(vc, pathValue)
    IN IF ~Truthy(value) THEN Null
       ELSE IF ~IsStr(value) THEN Threw
       ELSE Str(replaceNonAlnumRuns(toLowerCase(trim(value.s)), FALSE))

-----------------------------------------------------------------------------
(* Profile builder *)

\* getFieldValueFromVC with the commented-out name branch (lines 215-216) live
getFieldValueFromVC_withNameFields(vc, fld, allPaths) ==
    IF vc.docType \notin DOMAIN allPaths THEN Threw
    ELSE LET paths == allPaths[vc.docType]
         IN CASE fld \in {"firstName", "lastName", "middleName", "fatherName"} ->
                     handleNameFields(vc, paths, fld)
              [] fld = "disabilityType" -> handleDisabilityTypeField(vc, Prop(paths, fld))
              [] fld = "class" -> handleClassField(vc, Prop(paths, fld))
              [] fld = "dob" -> handleDobValue(vc, Prop(paths, fld))
              [] fld = "annualIncome" -> handleIncomeValue(vc, Prop(paths, fld))
              [] OTHER -> getValue(vc, Prop(paths, fld))

\* getFieldValueFromVC(vc, field); allPaths holds the vcPaths/<docType>.json
\* files, and reading a file that does not exist raises
getFieldValueFromVC(vc, fld, allPaths) ==
    IF vc.docType \notin DOMAIN allPaths THEN Threw
    ELSE LET paths == allPaths[vc.docType]
         IN CASE fld = "disabilityType" -> handleDisabilityTypeField(vc, Prop(paths, fld))
              [] fld = "class" -> handleClassField(vc, Prop(paths, fld))
              [] fld = "dob" -> handleDobValue(vc, Prop(paths, fld))
              [] fld = "annualIncome" -> handleIncomeValue(vc, Prop(paths, fld))
              [] OTHER -> getValue(vc, Prop(paths, fld))

\* vcs.find((vc) => vc.docType === docType): index of the first one, 0 if none
findVC(vcList, docType) ==
    IF \E i \in 1..Len(vcList) : vcList[i].docType = docType
    THEN CHOOSE i \in 1..Len(vcList) :
            /\ vcList[i].docType = docType
            /\ \A j \in 1..(i - 1) : vcList[j].docType # docType
    ELSE 0

\* the scan of one field that never stops at a value: the last candidate wins
RECURSIVE scanField_noBreak(_, _, _, _, _, _, _)
scanField_noBreak(vcList, allPaths, fld, vcArray, value, docsUsed, seen) ==
    IF vcArray = <<>> THEN [value |-> value, docsUsed |-> docsUsed, consulted |-> seen]
    ELSE LET k == findVC(vcList, Head(vcArray))
         IN IF k = 0
            THEN scanField_noBreak(vcList, allPaths, fld, Tail(vcArray), value, docsUsed, seen)
            ELSE LET v == getFieldValueFromVC(vcList[k], fld, allPaths)
                 IN IF v = Threw THEN Threw
                    ELSE scanField_noBreak(vcList, allPaths, fld, Tail(vcArray), v,
                                           IF Truthy(v) THEN <<vcList[k].docType>> ELSE docsUsed,
                                           Append(seen, Head(vcArray)))

\* the inner loop of buildProfile (lines 253-263) for one field, from the
\* candidates vcArray on: the value, docsUsed and the doc types consulted
RECURSIVE scanField(_, _, _, _, _, _, _)
scanField(vcList, allPaths, fld, vcArray, value, docsUsed, seen) ==
    IF vcArray = <<>> THEN [value |-> value, docsUsed |-> docsUsed, consulted |-> seen]
    ELSE LET k == findVC(vcList, Head(vcArray))
         IN IF k = 0
            THEN scanField(vcList, allPaths, fld, Tail(vcArray), value, docsUsed, seen)
            ELSE LET v == getFieldValueFromVC(vcList[k], fld, allPaths)
                 IN IF v = Threw THEN Threw
                    ELSE IF Truthy(v)
                         THEN [value |-> v, docsUsed |-> Append(docsUsed, vcList[k].docType),
                               consulted |-> Append(seen, Head(vcArray))]
                    ELSE scanField(vcList, allPaths, fld, Tail(vcArray), v, docsUsed,
                                   Append(seen, Head(vcArray)))

\* buildProfile(vcs): Threw when any field's scan raises
buildProfile(vcList, fields, allPaths) ==
    LET r == [f \in DOMAIN fields |->
                 scanField(vcList, allPaths, f, fields[f], Null, <<>>, <<>>)]
    IN IF \E f \in DOMAIN fields : r[f] = Threw THEN Threw
       ELSE [userProfile |-> [f \in DOMAIN fields |-> r[f].value],
             validationData |-> [f \in DOMAIN fields |-> r[f].docsUsed],
             consulted |-> [f \in DOMAIN fields |-> r[f].consulted]]

-----------------------------------------------------------------------------
(* Profile validator *)

Bool(b) == [t |-> "bool", b |-> b]

\* the index of the first match of a pattern in s, 0 if none; a pattern is a
\* sequence of "d" (one digit, \d) and literal characters
MatchesAt(s, i, pat) ==
    /\ i + Len(pat) - 1 <= Len(s)
    /\ \A k \in 1..Len(pat) :
        IF pat[k] = "d" THEN IsDigit(s[i + k - 1]) ELSE s[i + k - 1] = pat[k]

FirstMatch(s, pat) ==
    IF \E i \in 1..Len(s) : MatchesAt(s, i, pat)
    THEN CHOOSE i \in 1..Len(s) :
            MatchesAt(s, i, pat) /\ \A j \in 1..(i - 1) : ~MatchesAt(s, j, pat)
    ELSE 0

formats == <<
    [regex |-> <<"d", "d", "-", "d", "d", "-", "d", "d", "d", "d">>, format |-> "DD-MM-YYYY"],
    [regex |-> <<"d", "d", "d", "d", "-", "d", "d", "-", "d", "d">>, format |-> "YYYY-MM-DD"],
    [regex |-> <<"d", "d", "/", "d", "d", "/", "d", "d", "d", "d">>, format |-> "DD/MM/YYYY"],
    [regex |-> <<"d", "d", "d", "d", "/", "d", "d", "/", "d", "d">>, format |-> "YYYY/MM/DD"] >>

\* the loop of parseToStandardFormat over the formats from position k on
RECURSIVE parseFormatsFrom(_, _)
parseFormatsFrom(dateStr, k) ==
    IF k > Len(formats) THEN Null
    ELSE LET i == FirstMatch(dateStr, formats[k].regex)
         IN IF i = 0 THEN parseFormatsFrom(dateStr, k + 1)
            ELSE IF formats[k].format \in {"DD-MM-YYYY", "DD/MM/YYYY"}
                 THEN Str(SubSeq(dateStr, i + 6, i + 9) \o <<"-">>
                          \o SubSeq(dateStr, i + 3, i + 4) \o <<"-">>
                          \o SubSeq(dateStr, i, i + 1))
            ELSE Str(SubSeq(dateStr, i, i + 9))

\* parseToStandardFormat(dateStr); dateStr.match raises on a non-string
parseToStandardFormat(dateStr) ==
    IF ~IsStr(dateStr) THEN Threw ELSE parseFormatsFrom(dateStr.s, 1)

\* (acc, part) => acc && acc[part]
RECURSIVE getAttributeReduce(_, _)
getAttributeReduce(acc, parts) ==
    IF parts = <<>> THEN acc
    ELSE getAttributeReduce(
            IF ~Truthy(acc) THEN acc
            ELSE IF IsObj(acc) THEN Prop(acc.o, Head(parts))
            ELSE Undefined,
            Tail(parts))

\* getAttributeValue(vc, pathValue): undefined for a VC that is not json;
\* pathValue.split raises when the path is not configured
getAttributeValue(vc, pathValue) ==
    IF vc.docFormat = "json"
    THEN (IF ~IsStr(pathValue) THEN Threw
          ELSE getAttributeReduce(vc.content, Split(pathValue.s, ".")))
    ELSE Undefined

\* a == b of JavaScript
LooseEq(a, b) ==
    CASE a.t \in {"null", "undefined"} -> b.t \in {"null", "undefined"}
      [] b.t \in {"null", "undefined"} -> FALSE
      [] a.t = "nan" \/ b.t = "nan" -> FALSE
      [] a.t = "obj" \/ b.t = "obj" -> FALSE
      [] a.t = "str" /\ b.t = "str" -> a.s = b.s
      [] a.t = "num" /\ b.t = "num" -> a.n = b.n
      [] a.t = "str" /\ b.t = "num" -> Number(a.s) = b
      [] a.t = "num" /\ b.t = "str" -> Number(b.s) = a
      [] OTHER -> FALSE

\* a === b
StrictEq(a, b) == a.t # "nan" /\ a.t # "obj" /\ a = b

NameAttributes == {"firstName", "middleName", "lastName"}

\* a variant of the found-VC body whose categorical branch compares the VC
\* value as written, without lower-casing it
matchWithVC_rawVcValue(obj, vc, profileAttribute, profile, fieldVals, namePos) ==
    LET pathValue == IF profileAttribute \in NameAttributes /\ vc.vcType = "digilocker"
                     THEN Prop(obj.fields, "name")
                     ELSE Prop(obj.fields, profileAttribute)
        attributeValue == getAttributeValue(vc, pathValue)
        stored == Prop(profile, profileAttribute)
    IN IF attributeValue = Threw THEN Threw
       ELSE IF profileAttribute \in DOMAIN fieldVals THEN
            (IF ~IsStr(stored) THEN Threw
             ELSE IF toLowerCase(stored.s) \notin DOMAIN fieldVals[profileAttribute] THEN Threw
             ELSE IF ~IsStr(attributeValue) THEN Threw
             ELSE LET list == fieldVals[profileAttribute][toLowerCase(stored.s)]
                  IN Bool(\E i \in 1..Len(list) : list[i] = attributeValue.s))
       ELSE IF profileAttribute \in NameAttributes /\ vc.vcType = "digilocker" THEN
            (IF ~IsStr(attributeValue) THEN Threw
             ELSE IF vc.docType \notin DOMAIN namePos THEN Threw
             ELSE LET nameValues == Split(attributeValue.s, " ")
                      pos == Prop(namePos[vc.docType], profileAttribute)
                      picked == IF IsNum(pos) /\ pos.n + 1 \in 1..Len(nameValues)
                                THEN Str(nameValues[pos.n + 1]) ELSE Undefined
                  IN Bool(LooseEq(picked, stored)))
       ELSE IF profileAttribute = "dob" THEN
            (LET standardDate == parseToStandardFormat(attributeValue)
             IN IF standardDate = Threw THEN Threw
                ELSE IF Truthy(standardDate) THEN Bool(StrictEq(stored, standardDate))
                ELSE Bool(FALSE))
       ELSE Bool(LooseEq(attributeValue, stored))

\* the body of matchAttributeValue for the variant obj once its VC is found
\* (lines 93-144): a Bool, or Threw
matchWithVC(obj, vc, profileAttribute, profile, fieldVals, namePos) ==
    LET pathValue == IF profileAttribute \in NameAttributes /\ vc.vcType = "digilocker"
                     THEN Prop(obj.fields, "name")
                     ELSE Prop(obj.fields, profileAttribute)
        attributeValue == getAttributeValue(vc, pathValue)
        stored == Prop(profile, profileAttribute)
    IN IF attributeValue = Threw THEN Threw
       ELSE IF profileAttribute \in DOMAIN fieldVals THEN
            (IF ~IsStr(stored) THEN Threw
             ELSE IF toLowerCase(stored.s) \notin DOMAIN fieldVals[profileAttribute] THEN Threw
             ELSE IF ~IsStr(attributeValue) THEN Threw
             ELSE LET list == fieldVals[profileAttribute][toLowerCase(stored.s)]
                  IN Bool(\E i \in 1..Len(list) : list[i] = toLowerCase(attributeValue.s)))
       ELSE IF profileAttribute \in NameAttributes /\ vc.vcType = "digilocker" THEN
            (IF ~IsStr(attributeValue) THEN Threw
             ELSE IF vc.docType \notin DOMAIN namePos THEN Threw
             ELSE LET nameValues == Split(attributeValue.s, " ")
                      pos == Prop(namePos[vc.docType], profileAttribute)
                      picked == IF IsNum(pos) /\ pos.n + 1 \in 1..Len(nameValues)
                                THEN Str(nameValues[pos.n + 1]) ELSE Undefined
                  IN Bool(LooseEq(picked, stored)))
       ELSE IF profileAttribute = "dob" THEN
            (LET standardDate == parseToStandardFormat(attributeValue)
             IN IF standardDate = Threw THEN Threw
                ELSE IF Truthy(standardDate) THEN Bool(StrictEq(stored, standardDate))
                ELSE Bool(FALSE))
       ELSE Bool(LooseEq(attributeValue, stored))

\* index of the first VC with the variant's (vcType, format) and the doc type
findVariantVC(vcList, obj, fileName) ==
    IF \E i \in 1..Len(vcList) :
          vcList[i].vcType = obj.vcType /\ vcList[i].docFormat = obj.format
          /\ vcList[i].docType = fileName
    THEN CHOOSE i \in 1..Len(vcList) :
            /\ vcList[i].vcType = obj.vcType /\ vcList[i].docFormat = obj.format
            /\ vcList[i].docType = fileName
            /\ \A j \in 1..(i - 1) :
                 ~(vcList[j].vcType = obj.vcType /\ vcList[j].docFormat = obj.format
                   /\ vcList[j].docType = fileName)
    ELSE 0

\* a loop over the variants that goes on to the next variant when the VC of
\* one mismatches
RECURSIVE matchVariants_tryNext(_, _, _, _, _, _, _)
matchVariants_tryNext(fileContent, fileName, profileAttribute, vcList, profile, fieldVals, namePos) ==
    IF fileContent = <<>> THEN Bool(FALSE)
    ELSE LET k == findVariantVC(vcList, Head(fileContent), fileName)
             m == matchWithVC(Head(fileContent), vcList[k], profileAttribute, profile,
                              fieldVals, namePos)
         IN IF k # 0 /\ m = Threw THEN Threw
            ELSE IF k # 0 /\ m.b THEN m
            ELSE matchVariants_tryNext(Tail(fileContent), fileName, profileAttribute, vcList,
                                       profile, fieldVals, namePos)

\* the loop of matchAttributeValue over the variants of the doc type (lines 81-150)
RECURSIVE matchVariants(_, _, _, _, _, _, _)
matchVariants(fileContent, fileName, profileAttribute, vcList, profile, fieldVals, namePos) ==
    IF fileContent = <<>> THEN Bool(FALSE)
    ELSE LET k == findVariantVC(vcList, Head(fileContent), fileName)
         IN IF k # 0
            THEN matchWithVC(Head(fileContent), vcList[k], profileAttribute, profile,
                             fieldVals, namePos)
            ELSE matchVariants(Tail(fileContent), fileName, profileAttribute, vcList, profile,
                               fieldVals, namePos)

\* matchAttributeValue(fileName, profileAttribute, vcs, userProfile); reading
\* docToFieldMaps/<fileName>.json raises when there is no such file
matchAttributeValue(fileName, profileAttribute, vcList, profile, maps, fieldVals, namePos) ==
    IF fileName \notin DOMAIN maps THEN Threw
    ELSE matchVariants(maps[fileName], fileName, profileAttribute, vcList, profile,
                       fieldVals, namePos)

\* the loop over the candidate doc types that stops at the first match
RECURSIVE matchFiles_stopAtMatch(_, _, _, _, _, _, _, _)
matchFiles_stopAtMatch(files, attr, vcList, profile, maps, fieldVals, namePos, acc) ==
    IF files = <<>> THEN acc
    ELSE LET m == matchAttributeValue(Head(files), attr, vcList, profile, maps, fieldVals, namePos)
         IN IF m = Threw THEN Threw
            ELSE IF m.b THEN [verified |-> TRUE, docsUsed |-> Append(acc.docsUsed, Head(files))]
            ELSE matchFiles_stopAtMatch(Tail(files), attr, vcList, profile, maps, fieldVals,
                                        namePos, acc)

\* the loop of matchUserData over the candidate doc types of one attribute
\* (lines 180-192): verified and docsUsed, or Threw
RECURSIVE matchFiles(_, _, _, _, _, _, _, _)
matchFiles(files, attr, vcList, profile, maps, fieldVals, namePos, acc) ==
    IF files = <<>> THEN acc
    ELSE LET m == matchAttributeValue(Head(files), attr, vcList, profile, maps, fieldVals, namePos)
         IN IF m = Threw THEN Threw
            ELSE matchFiles(Tail(files), attr, vcList, profile, maps, fieldVals, namePos,
                            IF m.b THEN [verified |-> TRUE,
                                         docsUsed |-> Append(acc.docsUsed, Head(files))]
                            ELSE acc)

\* the loop over the keys that reports the verified attributes only
RECURSIVE matchKeys_verifiedOnly(_, _, _, _, _, _, _, _)
matchKeys_verifiedOnly(keys, vcList, profile, cfg, maps, fieldVals, namePos, resp) ==
    IF keys = <<>> THEN [t |-> "ok", list |-> resp]
    ELSE IF Head(keys) \notin DOMAIN cfg THEN Threw
    ELSE LET r == matchFiles(cfg[Head(keys)], Head(keys), vcList, profile, maps, fieldVals,
                             namePos, [verified |-> FALSE, docsUsed |-> <<>>])
         IN IF r = Threw THEN Threw
            ELSE matchKeys_verifiedOnly(Tail(keys), vcList, profile, cfg, maps, fieldVals, namePos,
                    IF r.verified
                    THEN Append(resp, [attribute |-> Head(keys), verified |-> r.verified,
                                       docsUsed |-> r.docsUsed])
                    ELSE resp)

\* the loop of matchUserData over Object.keys(userProfileInfo) (lines 174-199);
\* iterating config[profileAttribute] raises when the attribute has no entry
RECURSIVE matchKeys(_, _, _, _, _, _, _, _)
matchKeys(keys, vcList, profile, cfg, maps, fieldVals, namePos, resp) ==
    IF keys = <<>> THEN [t |-> "ok", list |-> resp]
    ELSE IF Head(keys) \notin DOMAIN cfg THEN Threw
    ELSE LET r == matchFiles(cfg[Head(keys)], Head(keys), vcList, profile, maps, fieldVals,
                             namePos, [verified |-> FALSE, docsUsed |-> <<>>])
         IN IF r = Threw THEN Threw
            ELSE matchKeys(Tail(keys), vcList, profile, cfg, maps, fieldVals, namePos,
                           Append(resp, [attribute |-> Head(keys), verified |-> r.verified,
                                         docsUsed |-> r.docsUsed]))

\* matchUserData(userProfileInfo, vcs): the response list, or Threw
matchUserData(profileInfo, vcList, cfg, maps, fieldVals, namePos) ==
    matchKeys(profileInfo.keys, vcList, profileInfo.vals, cfg, maps, fieldVals, namePos, <<>>)

-----------------------------------------------------------------------------
(* buildVCs and the JSON.parse it calls *)

Arr(a) == [t |-> "arr", a |-> a]

ParseError == [ok |-> FALSE]
Parsed(v, i) == [ok |-> TRUE, v |-> v, i |-> i]

\* index of the first character of s at or after i that is no white space
RECURSIVE skipWs(_, _)
skipWs(s, i) == IF i <= Len(s) /\ s[i] = " " THEN skipWs(s, i + 1) ELSE i

\* whether the word w stands in s at index i
StandsAt(s, i, w) == i + Len(w) - 1 <= Len(s) /\ SubSeq(s, i, i + Len(w) - 1) = w

\* a string whose opening quote is at i - 1: up to the next quote (no escapes)
parseString(s, i) ==
    IF \E k \in i..Len(s) : s[k] = "\""
    THEN LET k == CHOOSE k \in i..Len(s) : s[k] = "\"" /\ \A j \in i..(k - 1) : s[j] # "\""
         IN Parsed(Str(SubSeq(s, i, k - 1)), k + 1)
    ELSE ParseError

\* a number at i: an optional minus sign, then 0 or digits without leading 0
parseNumber(s, i) ==
    LET start == IF s[i] = "-" THEN i + 1 ELSE i
        n == LeadingDigits(SubSeq(s, start, Len(s)), Len(s))
        digits == SubSeq(s, start, start + n - 1)
    IN IF n = 0 \/ (n > 1 /\ digits[1] = "0") THEN ParseError
       ELSE Parsed(Num(IF s[i] = "-" THEN 0 - DecVal(digits) ELSE DecVal(digits)), start + n)

RECURSIVE parseValue(_, _)
RECURSIVE parseMembers(_, _, _, _)
RECURSIVE parseElements(_, _, _, _)

\* the members of an object from i on; first: nothing read yet after "{"
parseMembers(s, i, acc, first) ==
    LET j == skipWs(s, i)
    IN IF j > Len(s) THEN ParseError
       ELSE IF s[j] = "}" /\ first THEN Parsed(Obj(acc), j + 1)
       ELSE IF s[j] # "\"" THEN ParseError
       ELSE LET key == parseString(s, j + 1)
            IN IF ~key.ok THEN ParseError
               ELSE LET c == skipWs(s, key.i)
                    IN IF c > Len(s) \/ s[c] # ":" THEN ParseError
                       ELSE LET val == parseValue(s, c + 1)
                            IN IF ~val.ok THEN ParseError
                               ELSE LET e == skipWs(s, val.i)
                                        next == (key.v.s :> val.v) @@ acc
                                    IN IF e > Len(s) THEN ParseError
                                       ELSE IF s[e] = "}" THEN Parsed(Obj(next), e + 1)
                                       ELSE IF s[e] = "," THEN parseMembers(s, e + 1, next, FALSE)
                                       ELSE ParseError

\* the elements of an array from i on
parseElements(s, i, acc, first) ==
    LET j == skipWs(s, i)
    IN IF j > Len(s) THEN ParseError
       ELSE IF s[j] = "]" /\ first THEN Parsed(Arr(acc), j + 1)
       ELSE LET val == parseValue(s, j)
            IN IF ~val.ok THEN ParseError
               ELSE LET e == skipWs(s, val.i)
                    IN IF e > Len(s) THEN ParseError
                       ELSE IF s[e] = "]" THEN Parsed(Arr(Append(acc, val.v)), e + 1)
                       ELSE IF s[e] = "," THEN parseElements(s, e + 1, Append(acc, val.v), FALSE)
                       ELSE ParseError

parseValue(s, i) ==
    LET j == skipWs(s, i)
    IN IF j > Len(s) THEN ParseError
       ELSE IF s[j] = "{" THEN parseMembers(s, j + 1, <<>>, TRUE)
       ELSE IF s[j] = "[" THEN parseElements(s, j + 1, <<>>, TRUE)
       ELSE IF s[j] = "\"" THEN parseString(s, j + 1)
       ELSE IF s[j] = "-" \/ IsDigit(s[j]) THEN parseNumber(s, j)
       ELSE IF StandsAt(s, j, <<"n", "u", "l", "l">>) THEN Parsed(Null, j + 4)
       ELSE IF StandsAt(s, j, <<"t", "r", "u", "e">>) THEN Parsed(Bool(TRUE), j + 4)
       ELSE IF StandsAt(s, j, <<"f", "a", "l", "s", "e">>) THEN Parsed(Bool(FALSE), j + 5)
       ELSE ParseError

\* JSON.parse(text): the value, or Threw (a SyntaxError)
JSONParse(s) ==
    LET r == parseValue(s, 1)
    IN IF r.ok /\ skipWs(s, r.i) > Len(s) THEN r.v ELSE Threw

\* doc.doc_data as buildVCs reads it
docDataOf(doc) ==
    IF IsStr(doc.doc_data) THEN JSONParse(doc.doc_data.s) ELSE doc.doc_data

\* a loop that stops at the first document that fails to parse
RECURSIVE buildVCsFrom_stopAtFailure(_, _)
buildVCsFrom_stopAtFailure(docs, acc) ==
    IF docs = <<>> THEN acc
    ELSE IF docDataOf(Head(docs)) = Threw THEN acc
    ELSE buildVCsFrom_stopAtFailure(Tail(docs),
            Append(acc, [docType |-> Head(docs).doc_subtype,
                         content |-> docDataOf(Head(docs))]))

\* the loop of buildVCs over the documents; acc is the vcs array
RECURSIVE buildVCsFrom(_, _)
buildVCsFrom(docs, acc) ==
    IF docs = <<>> THEN acc
    ELSE IF docDataOf(Head(docs)) = Threw THEN buildVCsFrom(Tail(docs), acc)
    ELSE buildVCsFrom(Tail(docs),
            Append(acc, [docType |-> Head(docs).doc_subtype,
                         content |-> docDataOf(Head(docs))]))

buildVCs(docs) == buildVCsFrom(docs, <<>>)

-----------------------------------------------------------------------------
(* Inputs of the transforms *)

MaxNameLen == 5
MaxIncomeLen == 3

\* all strings over an alphabet, up to a length
Strings(alphabet, n) == UNION {[1..k -> alphabet] : k \in 0..n}

NameRaws == {Str(s) : s \in Strings({"R", "K", "S", " "}, MaxNameLen)} \cup {Null}
NameFieldArgs == {"firstName", "middleName", "lastName", "fatherName", "gender"}

IncomeRaws ==
    {Str(s) : s \in Strings({"0", "1", "2", ",", " ", "'", "-", "q"}, MaxIncomeLen)}
    \cup {Str(<<"1", ",", "2", "0", ",", "0", "0", "0">>)}
    \cup {Num(n) : n \in {-5, -1, 0, 1, 7, 120000}} \cup {NaN, Null}

DayMonthVals == {5, 8, 13}
YearVals == {2003}
DateStrings ==
    UNION {{Pad(a, 2) \o <<sep>> \o Pad(b, 2) \o <<sep>> \o Pad(y, 4),
            Pad(y, 4) \o <<sep>> \o Pad(a, 2) \o <<sep>> \o Pad(b, 2)} :
           <<a, b, y, sep>> \in DayMonthVals \X DayMonthVals \X YearVals \X {"-", "/"}}
DobRaws == {Str(s) : s \in DateStrings \cup {<<"q">>, <<"q", "w">>, <<>>}} \cup {Null}

MaxClassLen == 4
MaxSlugLen == 4

ClassRaws ==
    {Str(s) : s \in Strings({"I", "V", "X", "i", "8"}, MaxClassLen)}
    \cup {Str(<<"M", "C", "M", "X", "C", "I", "V">>), Str(<<"L", "D">>)}
    \cup {Num(0), Num(7), Null}

LocomotorText ==
    <<"L", "o", "c", "o", "m", "o", "t", "o", "r", " ",
      "D", "i", "s", "a", "b", "i", "l", "i", "t", "y", " ", "-", " ",
      "B", "o", "t", "h", " ", "L", "e", "g", "s">>

DisabilityRaws ==
    {Str(s) : s \in Strings({"a", "B", "1", " ", "-", "_"}, MaxSlugLen)}
    \cup {Str(LocomotorText), Num(5), Null}

\* the VC the transforms are applied to: the raw value sits at path "c.v"
RawPath == Str(<<"c", ".", "v">>)
RawVC(v) == [docType |-> "aadhaar", content |-> Obj(<<"c">> :> Obj(<<"v">> :> v))]
RawPaths == [name |-> RawPath]

-----------------------------------------------------------------------------
(* Specification of the transforms: each is applied once to any raw value *)

Idle == <<>>

Init ==
    /\ fn = "none"
    /\ rawValue = Idle /\ field = Idle /\ out = Idle
    /\ vcs = Idle /\ profileFields = Idle /\ vcPaths = Idle
    /\ userProfile = Idle /\ validationData = Idle /\ consulted = Idle
    /\ userProfileInfo = Idle /\ config = Idle /\ docToFieldMaps = Idle
    /\ fieldValues = Idle /\ nameFieldsPosition = Idle
    /\ argFileName = Idle /\ argAttribute = Idle /\ matched = Idle /\ response = Idle
    /\ userDocs = Idle
    /\ batch = Idle /\ pc = "idle" /\ batchPos = 0 /\ attempted = <<>> /\ logged = <<>>
    /\ returned = Idle
    /\ store = {} /\ upload = Idle /\ uploadsDone = 0 /\ uploadEnded = Idle
    /\ keycloakAccounts = {} /\ dbUsers = {} /\ userInfos = {}
    /\ registration = Idle /\ registrationsDone = 0 /\ deleteUserFailed = {}
    /\ applications = <<>> /\ cronRuns = <<>>
    /\ usersRow = [dob |-> Null, fieldsVerified |-> FALSE, fieldsVerificationData |-> Null]
    /\ userInfoRow = Idle /\ op = Idle /\ runners = <<>> /\ opsDone = 0

builderVars == <<vcs, profileFields, vcPaths, userProfile, validationData, consulted>>
validatorVars == <<userProfileInfo, config, docToFieldMaps, fieldValues, nameFieldsPosition,
                   argFileName, argAttribute, matched, response>>
transformVars == <<rawValue, field, out>>
docVars == <<userDocs>>
batchVars == <<batch, pc, batchPos, attempted, logged, returned>>
docStoreVars == <<store, upload, uploadsDone, uploadEnded>>
registrationVars == <<keycloakAccounts, dbUsers, userInfos, registration, registrationsDone,
                      deleteUserFailed>>
cronVars == <<applications, cronRuns>>
txVars == <<usersRow, userInfoRow, op, runners, opsDone>>
serviceVars == <<docVars, batchVars, docStoreVars, registrationVars, cronVars, txVars>>

HandleNameFields ==
    /\ fn = "none"
    /\ \E v \in NameRaws, f \in NameFieldArgs :
        /\ rawValue' = v /\ field' = f
        /\ out' = handleNameFields(RawVC(v), RawPaths, f)
    /\ fn' = "handleNameFields"
    /\ UNCHANGED <<builderVars, validatorVars, serviceVars>>

HandleDobValue ==
    /\ fn = "none"
    /\ \E v \in DobRaws :
        /\ rawValue' = v /\ field' = "dob"
        /\ out' = handleDobValue(RawVC(v), RawPath)
    /\ fn' = "handleDobValue"
    /\ UNCHANGED <<builderVars, validatorVars, serviceVars>>

HandleIncomeValue ==
    /\ fn = "none"
    /\ \E v \in IncomeRaws :
        /\ rawValue' = v /\ field' = "annualIncome"
        /\ out' = handleIncomeValue(RawVC(v), RawPath)
    /\ fn' = "handleIncomeValue"
    /\ UNCHANGED <<builderVars, validatorVars, serviceVars>>

HandleClassField ==
    /\ fn = "none"
    /\ \E v \in ClassRaws :
        /\ rawValue' = v /\ field' = "class"
        /\ out' = handleClassField(RawVC(v), RawPath)
    /\ fn' = "handleClassField"
    /\ UNCHANGED <<builderVars, validatorVars, serviceVars>>

HandleDisabilityTypeField ==
    /\ fn = "none"
    /\ \E v \in DisabilityRaws :
        /\ rawValue' = v /\ field' = "disabilityType"
        /\ out' = handleDisabilityTypeField(RawVC(v), RawPath)
    /\ fn' = "handleDisabilityTypeField"
    /\ UNCHANGED <<builderVars, validatorVars, serviceVars>>

NextTransform ==
    \/ HandleNameFields \/ HandleDobValue \/ HandleIncomeValue
    \/ HandleClassField \/ HandleDisabilityTypeField

SpecTransform == Init /\ [][NextTransform]_vars

-----------------------------------------------------------------------------
(* Claims about the transforms (checked under SpecTransform) *)

SpacesOf(s) == {i \in 1..Len(s) : s[i] = " "}
TokenCount(s) == Cardinality(SpacesOf(s)) + 1
FirstSpace(s) == CHOOSE i \in SpacesOf(s) : \A j \in SpacesOf(s) : i <= j
LastSpace(s) == CHOOSE i \in SpacesOf(s) : \A j \in SpacesOf(s) : i >= j
FirstToken(s) == IF SpacesOf(s) = {} THEN s ELSE SubSeq(s, 1, FirstSpace(s) - 1)
LastToken(s) == IF SpacesOf(s) = {} THEN s ELSE SubSeq(s, LastSpace(s) + 1, Len(s))
MiddleToken(s) == SubSeq(s, FirstSpace(s) + 1, LastSpace(s) - 1)
MiddleResult(s) == IF TokenCount(s) = 3 THEN Str(MiddleToken(s)) ELSE Null

NameCase == fn = "handleNameFields" /\ IsStr(rawValue) /\ rawValue.s # <<>>

\* C8 as stated: for every non-empty name, firstName is the first token,
\* middleName the middle token of exactly three (else null), lastName the last
\* token for any token count including one, fatherName the middleName result.
C8_NameSplitAnyCount ==
    NameCase =>
        /\ field = "firstName" => out = Str(FirstToken(rawValue.s))
        /\ field = "middleName" => out = MiddleResult(rawValue.s)
        /\ field = "lastName" => out = Str(LastToken(rawValue.s))
        /\ field = "fatherName" => out = MiddleResult(rawValue.s)

\* C8 amended: the name is split at every single space character; firstName
\* is the first token, middleName the middle token of exactly three (else
\* null), lastName the last token when there are at least two tokens and null
\* for a one-token name, fatherName the middleName result.
C8_NameSplit ==
    NameCase =>
        /\ field = "firstName" => out = Str(FirstToken(rawValue.s))
        /\ field = "middleName" => out = MiddleResult(rawValue.s)
        /\ field = "lastName" =>
              out = IF TokenCount(rawValue.s) >= 2 THEN Str(LastToken(rawValue.s)) ELSE Null
        /\ field = "fatherName" => out = MiddleResult(rawValue.s)

C8_Witness ==
    /\ fn = "handleNameFields" /\ field = "lastName"
    /\ rawValue = Str(<<"R">>) /\ out = Null

C8_WitnessThree ==
    /\ fn = "handleNameFields" /\ field = "fatherName"
    /\ rawValue = Str(<<"R", " ", "K", " ", "S">>) /\ out = Str(<<"K">>)

\* a string NN?NN?NNNN / NNNN?NN?NN with the separator sep
IsDMYShape(s, sep) ==
    /\ Len(s) = 10 /\ s[3] = sep /\ s[6] = sep
    /\ \A i \in {1, 2, 4, 5, 7, 8, 9, 10} : IsDigit(s[i])
IsYMDShape(s, sep) ==
    /\ Len(s) = 10 /\ s[5] = sep /\ s[8] = sep
    /\ \A i \in {1, 2, 3, 4, 6, 7, 9, 10} : IsDigit(s[i])
IsCalendarDate(y, m, d) == y > 0 /\ m \in 1..12 /\ d >= 1 /\ d <= DaysInMonth(y, m)
IsoText(y, m, d) == SubSeq(y, 1, 4) \o <<"-">> \o m \o <<"-">> \o d

DobCase == fn = "handleDobValue" /\ IsStr(rawValue)

\* C9 as stated: DD-MM-YYYY gives the YYYY-MM-DD string of the same day,
\* month and year; YYYY/MM/DD gives YYYY-MM-DD; a string that no format
\* parses gives null.
C9_DateTransform ==
    DobCase =>
        LET s == rawValue.s IN
        /\ (IsDMYShape(s, "-")
            /\ IsCalendarDate(DecVal(SubSeq(s, 7, 10)), DecVal(SubSeq(s, 4, 5)), DecVal(SubSeq(s, 1, 2))))
           => out = Str(IsoText(SubSeq(s, 7, 10), SubSeq(s, 4, 5), SubSeq(s, 1, 2)))
        /\ (IsYMDShape(s, "/")
            /\ IsCalendarDate(DecVal(SubSeq(s, 1, 4)), DecVal(SubSeq(s, 6, 7)), DecVal(SubSeq(s, 9, 10))))
           => out = Str(IsoText(SubSeq(s, 1, 4), SubSeq(s, 6, 7), SubSeq(s, 9, 10)))
        /\ (\A i \in 1..Len(s) : ~IsDigit(s[i])) => out = Null

\* the parts of C9 that the code does satisfy: DD-MM-YYYY with a day above 12,
\* YYYY/MM/DD and unparseable strings
C9_DateTransformDayAbove12 ==
    DobCase =>
        LET s == rawValue.s IN
        /\ (IsDMYShape(s, "-") /\ DecVal(SubSeq(s, 1, 2)) > 12
            /\ IsCalendarDate(DecVal(SubSeq(s, 7, 10)), DecVal(SubSeq(s, 4, 5)), DecVal(SubSeq(s, 1, 2))))
           => out = Str(IsoText(SubSeq(s, 7, 10), SubSeq(s, 4, 5), SubSeq(s, 1, 2)))
        /\ (IsYMDShape(s, "/")
            /\ IsCalendarDate(DecVal(SubSeq(s, 1, 4)), DecVal(SubSeq(s, 6, 7)), DecVal(SubSeq(s, 9, 10))))
           => out = Str(IsoText(SubSeq(s, 1, 4), SubSeq(s, 6, 7), SubSeq(s, 9, 10)))
        /\ (\A i \in 1..Len(s) : ~IsDigit(s[i])) => out = Null

\* "08-05-2003" comes out as 5 August
C9_SwappedDayMonth ==
    /\ fn = "handleDobValue"
    /\ rawValue = Str(<<"0", "8", "-", "0", "5", "-", "2", "0", "0", "3">>)
    /\ out = Str(<<"2", "0", "0", "3", "-", "0", "8", "-", "0", "5">>)

IsSeparator(c) == c \in {",", " ", "'"}
DigitsOf(s) == SelectSeq(s, IsDigit)
RECURSIVE Pow10(_)
Pow10(k) == IF k = 0 THEN 1 ELSE 10 * Pow10(k - 1)
RECURSIVE DigitSum(_, _)
DigitSum(ds, i) ==
    IF i > Len(ds) THEN 0 ELSE DigitVal(ds[i]) * Pow10(Len(ds) - i) + DigitSum(ds, i + 1)

\* C10: a numeric raw value is returned unchanged when it is non-negative and
\* not NaN and gives null otherwise; a string raw value is stripped of commas,
\* apostrophes and spaces and converted to a number, so digits with
\* separators give the number the digits denote ("1,20,000" gives 120000).
C10_IncomeTransform ==
    fn = "handleIncomeValue" =>
        /\ IsNum(rawValue) => out = (IF rawValue.n >= 0 THEN rawValue ELSE Null)
        /\ rawValue = NaN => out = Null
        /\ IsStr(rawValue) =>
            /\ out = NaN \/ IsNum(out)
            /\ (\A i \in 1..Len(rawValue.s) : IsDigit(rawValue.s[i]) \/ IsSeparator(rawValue.s[i]))
                 => out = Num(DigitSum(DigitsOf(rawValue.s), 1))
        /\ rawValue = Str(<<"1", ",", "2", "0", ",", "0", "0", "0">>) => out = Num(120000)

C10_Witness ==
    /\ fn = "handleIncomeValue"
    /\ rawValue = Str(<<"1", ",", "2", "0", ",", "0", "0", "0">>)
    /\ out = Num(120000)

C10_WitnessNegative ==
    fn = "handleIncomeValue" /\ rawValue = Num(-5) /\ out = Null

RomanSymbols == {"I", "V", "X", "L", "C", "D", "M"}
SymbolValue(c) ==
    CASE c = "I" -> 1 [] c = "V" -> 5 [] c = "X" -> 10 [] c = "L" -> 50
      [] c = "C" -> 100 [] c = "D" -> 500 [] c = "M" -> 1000

\* what position k of the numeral s adds to the total: minus its value when
\* the next symbol is larger, plus its value otherwise
SignedValue(s, k) ==
    IF k < Len(s) /\ SymbolValue(s[k]) < SymbolValue(s[k + 1])
    THEN 0 - SymbolValue(s[k]) ELSE SymbolValue(s[k])

RECURSIVE ScanTotal(_, _)
ScanTotal(s, k) == IF k = 0 THEN 0 ELSE ScanTotal(s, k - 1) + SignedValue(s, k)

IsRomanText(v) == IsStr(v) /\ v.s # <<>> /\ \A k \in 1..Len(v.s) : v.s[k] \in RomanSymbols

ClassCase == fn = "handleClassField"

\* the class transform on text: the scan's total for a roman numeral (the
\* text itself when the total is 0), the text itself for any other text
ClassOfText ==
    (ClassCase /\ IsStr(rawValue) /\ rawValue.s # <<>>) =>
        IF IsRomanText(rawValue) /\ ScanTotal(rawValue.s, Len(rawValue.s)) # 0
        THEN out = Num(ScanTotal(rawValue.s, Len(rawValue.s)))
        ELSE out = rawValue

\* C12: the class transform converts a roman numeral with the left-to-right
\* subtractive-pair scan (IV = 4, IX = 9, XII = 12); a non-empty raw value
\* that is no roman numeral, or converts to 0, is returned unchanged, never
\* null. Empty means what the transform's own test rejects: null, the empty
\* text and the number 0, for which the result is null.
C12_ClassTransform ==
    /\ ClassOfText
    /\ (ClassCase /\ IsNum(rawValue)) => out = (IF rawValue.n = 0 THEN Null ELSE rawValue)
    /\ (ClassCase /\ rawValue \in {Null, Str(<<>>)}) => out = Null
    /\ (ClassCase /\ rawValue = Str(<<"I", "X">>)) => out = Num(9)
    /\ (ClassCase /\ rawValue = Str(<<"X", "I", "I">>)) => out = Num(12)

\* "IV" is converted to 4
C12_Witness ==
    ClassCase /\ rawValue = Str(<<"I", "V">>) /\ out = Num(4)

\* "IX" gives 9, "XII" gives 12, "8" and "Xi" are returned as they are
C12_WitnessExamples ==
    ClassCase /\ \/ rawValue = Str(<<"I", "X">>) /\ out = Num(9)
                 \/ rawValue = Str(<<"X", "I", "I">>) /\ out = Num(12)

C12_WitnessUnrecognized ==
    ClassCase /\ rawValue = Str(<<"X", "i">>) /\ out = rawValue

SlugCase == fn = "handleDisabilityTypeField" /\ IsStr(rawValue) /\ rawValue.s # <<>>

IsAlnum(c) == IsLower(c) \/ IsDigit(c)

\* the letters and digits of a text, in order
Alnums(s) == SelectSeq(s, IsAlnum)

\* number of maximal runs of characters outside [a-z0-9] in s
RunCount(s) ==
    Cardinality({k \in 1..Len(s) : ~IsAlnum(s[k]) /\ (k = 1 \/ IsAlnum(s[k - 1]))})

C13_WitnessRun ==
    SlugCase /\ rawValue = Str(<<"a", "-", "_", "B">>) /\ out = Str(<<"a", "_", "b">>)

-----------------------------------------------------------------------------
(* Specification of the builder: buildProfile is applied once to any VC set *)
(* under any of the configurations                                          *)

MaxVCs == 2

DocTypes == {"aadhaar", "marksheet", "incomeCertificate"}

PathName == Str(<<"c", ".", "n">>)
PathFirst == Str(<<"c", ".", "f">>)
PathIncome == Str(<<"c", ".", "i">>)
PathDob == Str(<<"c", ".", "d">>)

FullName == Str(<<"R", " ", "K", " ", "S">>)

Content(o) == Obj(<<"c">> :> Obj(o))

\* document contents: a composite name alone, name with first name and a
\* date, falsy values, usable values, unparseable values, a negative income,
\* an empty document and a document whose "c" is no object
Contents == {
    Content(<<"n">> :> FullName),
    Content((<<"n">> :> FullName) @@ (<<"f">> :> Str(<<"R">>))
            @@ (<<"d">> :> Str(<<"1", "3", "-", "0", "5", "-", "2", "0", "0", "3">>))),
    Content((<<"f">> :> Str(<<>>)) @@ (<<"i">> :> Str(<<"0">>))),
    Content((<<"f">> :> Str(<<"K">>)) @@ (<<"i">> :> Num(7))),
    Content((<<"i">> :> Str(<<"q">>)) @@ (<<"d">> :> Str(<<"q">>))),
    Content(<<"i">> :> Num(-5)),
    Obj(<<>>),
    Obj(<<"c">> :> Str(<<"q">>)) }

VCPool == {[docType |-> dt, content |-> c] : dt \in DocTypes, c \in Contents}

VCLists == UNION {[1..k -> VCPool] : k \in 0..MaxVCs}

\* configFiles/vcArray.json: per field, the candidate doc types in priority order
ProfileFieldsChoices == {
    [firstName |-> <<"aadhaar", "marksheet">>, middleName |-> <<"aadhaar">>,
     lastName |-> <<"aadhaar">>, fatherName |-> <<"aadhaar">>,
     dob |-> <<"aadhaar", "marksheet">>,
     annualIncome |-> <<"incomeCertificate", "marksheet", "aadhaar">>],
    [firstName |-> <<"marksheet", "incomeCertificate", "aadhaar">>, middleName |-> <<"aadhaar">>,
     lastName |-> <<"aadhaar", "marksheet">>, fatherName |-> <<>>,
     dob |-> <<"marksheet">>,
     annualIncome |-> <<"aadhaar", "incomeCertificate">>] }

DirectPaths == [name |-> PathName, firstName |-> PathFirst,
                annualIncome |-> PathIncome, dob |-> PathDob]
NamePaths == [name |-> PathName, firstName |-> PathName, middleName |-> PathName,
              lastName |-> PathName, fatherName |-> PathName,
              annualIncome |-> PathIncome, dob |-> PathDob]

\* vcPaths/<docType>.json: every field by its own path; the name fields of
\* aadhaar by the composite name path; no file for incomeCertificate
VcPathsChoices == {
    [dt \in DocTypes |-> DirectPaths],
    [dt \in DocTypes |-> IF dt = "aadhaar" THEN NamePaths ELSE DirectPaths],
    [dt \in {"aadhaar", "marksheet"} |-> DirectPaths] }

MaxDocs == 2

\* stored doc_data texts that are JSON
ValidDocTexts == {
    <<"{", "\"", "c", "\"", ":", "{", "\"", "n", "\"", ":", "\"", "R", "\"", "}", "}">>,
    <<"{", " ", "\"", "i", "\"", " ", ":", " ", "-", "1", "2", " ", "}">>,
    <<"n", "u", "l", "l">>,
    <<"\"", "q", "\"">>,
    <<"[", "1", ",", "{", "\"", "a", "\"", ":", "t", "r", "u", "e", "}", "]">>,
    <<"{", "}">> }

\* stored doc_data texts that are not JSON: empty, cut short, a bare word,
\* trailing text, single quotes, a trailing comma, a leading zero
InvalidDocTexts == {
    <<>>,
    <<"{", "\"", "c", "\"", ":">>,
    <<"q">>,
    <<"{", "\"", "i", "\"", ":", "7", "}", "x">>,
    <<"{", "'", "i", "'", ":", "7", "}">>,
    <<"{", "\"", "i", "\"", ":", "7", ",", "}">>,
    <<"0", "1">> }

\* doc_data already held as structured data
StructuredDocData == {Content(<<"n">> :> FullName), Null}

DocDatas ==
    {Str(t) : t \in ValidDocTexts \cup InvalidDocTexts} \cup StructuredDocData

\* the rows of a user's documents: doc_id is the row's position
DocLists ==
    UNION {{[k \in 1..n |-> [doc_id |-> k, doc_subtype |-> st[k], doc_data |-> dd[k]]] :
              st \in [1..n -> {"aadhaar", "marksheet"}], dd \in [1..n -> DocDatas]} :
           n \in 0..MaxDocs}

BuildVCs ==
    /\ fn = "none"
    /\ \E docs \in DocLists :
        /\ userDocs' = docs
        /\ vcs' = buildVCs(docs)
    /\ fn' = "buildVCs"
    /\ UNCHANGED <<transformVars, validatorVars, batchVars, docStoreVars, registrationVars, cronVars, txVars, profileFields, vcPaths,
                   userProfile, validationData, consulted>>

BuildProfile ==
    /\ fn = "none"
    /\ \E l \in VCLists, pf \in ProfileFieldsChoices, vp \in VcPathsChoices :
        \E r \in {buildProfile(l, pf, vp)} :
           /\ vcs' = l /\ profileFields' = pf /\ vcPaths' = vp
           /\ userProfile' = (IF r = Threw THEN Threw ELSE r.userProfile)
           /\ validationData' = (IF r = Threw THEN Threw ELSE r.validationData)
           /\ consulted' = (IF r = Threw THEN Threw ELSE r.consulted)
    /\ fn' = "buildProfile"
    /\ UNCHANGED <<transformVars, validatorVars, serviceVars>>

NextBuild == BuildProfile \/ BuildVCs

SpecBuild == Init /\ [][NextBuild]_vars

-----------------------------------------------------------------------------
(* Claims about the builder (checked under SpecBuild) *)

Built == fn = "buildProfile" /\ userProfile # Threw

HasVC(docType) == \E i \in 1..Len(vcs) : vcs[i].docType = docType
FirstVC(docType) ==
    vcs[CHOOSE i \in 1..Len(vcs) :
            vcs[i].docType = docType /\ \A j \in 1..(i - 1) : vcs[j].docType # docType]

\* the transformed value the candidate at position i of field f's list yields
Contribution(f, i) == getFieldValueFromVC(FirstVC(profileFields[f][i]), f, vcPaths)

\* positions of f's list with a VC in the set whose transformed value is non-null
NonNullAt(f) ==
    {i \in 1..Len(profileFields[f]) :
        HasVC(profileFields[f][i]) /\ Contribution(f, i) \notin {Null, Undefined, Threw}}

\* positions of f's list with a VC in the set whose transformed value is truthy
TruthyAt(f) ==
    {i \in 1..Len(profileFields[f]) :
        HasVC(profileFields[f][i]) /\ Truthy(Contribution(f, i)) /\ Contribution(f, i) # Threw}

Least(S) == CHOOSE i \in S : \A j \in S : i <= j

\* the candidates of f with a VC in the set, up to and including position i
PresentUpTo(f, i) ==
    SelectSeq(SubSeq(profileFields[f], 1, i), HasVC)

\* C1 as stated: the value of every field is the transformed value of the
\* earliest candidate doc type that has a VC in the set and yields a non-null
\* transformed value, and no later candidate is consulted.
C1_FirstNonNullWins ==
    Built =>
        \A f \in DOMAIN profileFields :
            NonNullAt(f) # {} =>
                /\ userProfile[f] = Contribution(f, Least(NonNullAt(f)))
                /\ consulted[f] = PresentUpTo(f, Least(NonNullAt(f)))

\* C1 amended: the value of every field is the transformed value of the
\* earliest candidate doc type that has a VC in the set and yields a truthy
\* transformed value (not null, not "", not 0, not NaN), whatever a later
\* candidate would have produced; no candidate after that one is consulted.
C1_FirstTruthyWins ==
    Built =>
        \A f \in DOMAIN profileFields :
            TruthyAt(f) # {} =>
                /\ userProfile[f] = Contribution(f, Least(TruthyAt(f)))
                /\ consulted[f] = PresentUpTo(f, Least(TruthyAt(f)))

\* a first candidate wins although a later candidate has a different value
C1_Witness ==
    /\ Built
    /\ \E f \in DOMAIN profileFields :
        /\ TruthyAt(f) # {}
        /\ \E j \in TruthyAt(f) :
            /\ j > Least(TruthyAt(f))
            /\ Contribution(f, j) # Contribution(f, Least(TruthyAt(f)))
        /\ userProfile[f] = Contribution(f, Least(TruthyAt(f)))

\* C3: a field for which no candidate yields a value (no VC of a candidate
\* doc type is present, or every candidate's result is rejected) is null in
\* the returned profile, with empty provenance.
C3_NoValueIsNull ==
    Built =>
        \A f \in DOMAIN profileFields :
            TruthyAt(f) = {} => userProfile[f] = Null /\ validationData[f] = <<>>

\* what the code does guarantee for such a field: empty provenance and a
\* falsy value (null, or the last consulted candidate's "", 0 or NaN)
C3_NoValueIsFalsy ==
    Built =>
        \A f \in DOMAIN profileFields :
            TruthyAt(f) = {} => ~Truthy(userProfile[f]) /\ validationData[f] = <<>>

\* an unparseable income is returned as NaN
C3_NaNLeaks ==
    Built /\ userProfile["annualIncome"] = NaN /\ validationData["annualIncome"] = <<>>

NameFields == {"firstName", "middleName", "lastName", "fatherName"}

\* an aadhaar VC whose name path resolves to the three-token name "R K S",
\* aadhaar being the first candidate of every name field
AadhaarNameCase ==
    /\ Built
    /\ HasVC("aadhaar")
    /\ getValue(FirstVC("aadhaar"), Prop(vcPaths["aadhaar"], "name")) = FullName
    /\ \A f \in NameFields : profileFields[f] # <<>> /\ profileFields[f][1] = "aadhaar"

SplitOf(f) ==
    CASE f = "firstName" -> Str(<<"R">>) [] f = "middleName" -> Str(<<"K">>)
      [] f = "lastName" -> Str(<<"S">>) [] f = "fatherName" -> Str(<<"K">>)

ParsedFields == {"dob", "annualIncome"}

\* the raw value the candidate at position i of field f's list holds at the
\* path configured for f
RawAt(f, i) ==
    LET dt == profileFields[f][i]
    IN IF dt \in DOMAIN vcPaths THEN getValue(FirstVC(dt), Prop(vcPaths[dt], f))
       ELSE Undefined

\* a text without any digit and with a letter: neither a date nor a number
Unparseable(v) ==
    /\ IsStr(v)
    /\ \A k \in 1..Len(v.s) : ~IsDigit(v.s[k])
    /\ \E k \in 1..Len(v.s) : IsLower(v.s[k])

\* positions of f's list with a VC in the set
PresentAt(f) == {i \in 1..Len(profileFields[f]) : HasVC(profileFields[f][i])}

\* C11: for dob and annualIncome, a raw value that is neither a date nor a
\* number makes the transform return null without raising, and a field all of
\* whose present candidates hold such a value is null in the built profile.
C11_UnparseableIsNull ==
    fn = "buildProfile" =>
        \A f \in ParsedFields :
            /\ \A i \in PresentAt(f) :
                  Unparseable(RawAt(f, i)) => Contribution(f, i) = Null
            /\ (Built /\ PresentAt(f) # {} /\ \A i \in PresentAt(f) : Unparseable(RawAt(f, i)))
                  => userProfile[f] = Null

\* the part of C11 that the code keeps: an unparseable date is null
C11_UnparseableDobIsNull ==
    fn = "buildProfile" =>
        /\ \A i \in PresentAt("dob") :
              Unparseable(RawAt("dob", i)) => Contribution("dob", i) = Null
        /\ (Built /\ PresentAt("dob") # {} /\ \A i \in PresentAt("dob") : Unparseable(RawAt("dob", i)))
              => userProfile["dob"] = Null

\* the income text "q" of the only candidate present is built as NaN
C11_NaNIncome ==
    /\ Built /\ PresentAt("annualIncome") # {}
    /\ \A i \in PresentAt("annualIncome") : RawAt("annualIncome", i) = Str(<<"q">>)
    /\ userProfile["annualIncome"] = NaN

\* the provenance list of f is empty, or holds one doc type that is a
\* candidate of f, has a VC in the set and yields the value stored for f
SingleSource(f) ==
    \/ validationData[f] = <<>>
    \/ /\ Len(validationData[f]) = 1
       /\ \E i \in 1..Len(profileFields[f]) :
            /\ profileFields[f][i] = validationData[f][1]
            /\ HasVC(profileFields[f][i])
            /\ userProfile[f] = Contribution(f, i)

\* C17: in every result of buildProfile each field's provenance list holds at
\* most one doc type; it is non-empty exactly when the field has a value (is
\* not null), and its entry is then a candidate doc type of the field with a
\* VC in the set, from which the value was extracted.
C17_ProvenanceIffValue ==
    Built =>
        \A f \in DOMAIN profileFields :
            /\ SingleSource(f)
            /\ validationData[f] # <<>> <=> userProfile[f] # Null

\* what holds of the provenance: single source, and non-empty exactly when
\* the stored value is truthy
C17_ProvenanceIffTruthy ==
    Built =>
        \A f \in DOMAIN profileFields :
            /\ SingleSource(f)
            /\ validationData[f] # <<>> <=> Truthy(userProfile[f])

\* the income 0 is stored without provenance
C17_ValueWithoutProvenance ==
    Built /\ userProfile["annualIncome"] = Num(0) /\ validationData["annualIncome"] = <<>>

VCsCase == fn = "buildVCs"

\* a document whose content is structured data or one of the JSON texts
KeepsDoc(d) == ~IsStr(d.doc_data) \/ d.doc_data.s \in ValidDocTexts

NameDocText == <<"{", "\"", "c", "\"", ":", "{", "\"", "n", "\"", ":", "\"", "R", "\"", "}", "}">>
IncomeDocText == <<"{", " ", "\"", "i", "\"", " ", ":", " ", "-", "1", "2", " ", "}">>

\* C15: buildVCs returns, in input order, exactly one VC per document whose
\* content is JSON text or structured data, carrying the document's subtype
\* and the parsed (or given) content, and none for a document whose content
\* fails to parse; such a document drops no other document.
C15_OneVCPerParsableDoc ==
    VCsCase =>
        LET kept == SelectSeq(userDocs, KeepsDoc)
        IN /\ Len(vcs) = Len(kept)
           /\ \A k \in 1..Len(kept) :
                /\ vcs[k].docType = kept[k].doc_subtype
                /\ ~IsStr(kept[k].doc_data) => vcs[k].content = kept[k].doc_data
                /\ kept[k].doc_data = Str(NameDocText)
                     => vcs[k].content = Content(<<"n">> :> Str(<<"R">>))
                /\ kept[k].doc_data = Str(IncomeDocText)
                     => vcs[k].content = Obj(<<"i">> :> Num(-12))
                /\ kept[k].doc_data = Str(<<"n", "u", "l", "l">>) => vcs[k].content = Null

\* a document that fails to parse, followed by one that parses: one VC, of
\* the second document
C15_Witness ==
    /\ VCsCase /\ Len(userDocs) = 2
    /\ userDocs[1].doc_data = Str(<<"q">>) /\ userDocs[1].doc_subtype = "aadhaar"
    /\ userDocs[2].doc_data = Str(NameDocText) /\ userDocs[2].doc_subtype = "marksheet"
    /\ vcs = <<[docType |-> "marksheet", content |-> Content(<<"n">> :> Str(<<"R">>))]>>

-----------------------------------------------------------------------------
(* Specification of the validator: matchUserData is applied once to any     *)
(* profile and VC set, matchAttributeValue once to any dob or gender value   *)

MaxMatchVCs == 2
MaxGenderLen == 2

PathGender == Str(<<"c", ".", "g">>)

ContentA ==
    Content((<<"f">> :> Str(<<"R">>)) @@ (<<"n">> :> FullName) @@ (<<"g">> :> Str(<<"M">>))
            @@ (<<"d">> :> Str(<<"0", "8", "-", "0", "5", "-", "2", "0", "0", "3">>)))
ContentB ==
    Content((<<"f">> :> Str(<<"K">>)) @@ (<<"g">> :> Str(<<"f">>))
            @@ (<<"d">> :> Str(<<"2", "0", "0", "3", "/", "0", "5", "/", "0", "8">>)))
ContentEmpty == Obj(<<>>)

MatchVC(dt, vt, fmt, c) == [docType |-> dt, vcType |-> vt, docFormat |-> fmt, content |-> c]

MatchVCPool == {
    MatchVC("aadhaar", "w3c", "json", ContentA),
    MatchVC("aadhaar", "w3c", "json", ContentB),
    MatchVC("aadhaar", "digilocker", "json", ContentA),
    MatchVC("aadhaar", "digilocker", "json", ContentEmpty),
    MatchVC("marksheet", "w3c", "json", ContentA),
    MatchVC("marksheet", "w3c", "json", ContentB),
    MatchVC("marksheet", "w3c", "json", ContentEmpty),
    MatchVC("marksheet", "w3c", "xml", ContentA) }

MatchVCLists == UNION {[1..k -> MatchVCPool] : k \in 0..MaxMatchVCs}

\* the values a stored profile holds per attribute
StoredValues(attr) ==
    CASE attr = "firstName" -> {Str(<<"R">>), Null}
      [] attr = "gender" -> {Str(<<"M">>), Str(<<"f">>)}
      [] attr = "dob" -> {Str(<<"2", "0", "0", "3", "-", "0", "5", "-", "0", "8">>)}

MatchAttributes == {"firstName", "gender", "dob"}

\* the key orders of a profile: every arrangement of every subset
KeyOrders ==
    {k \in UNION {[1..n -> MatchAttributes] : n \in 0..Cardinality(MatchAttributes)} :
        \A i, j \in 1..Len(k) : i # j => k[i] # k[j]}

KeySet(k) == {k[i] : i \in 1..Len(k)}

Profiles ==
    UNION {{[keys |-> k, vals |-> v] :
              v \in {f \in [KeySet(k) -> UNION {StoredValues(a) : a \in KeySet(k)}] :
                        \A a \in KeySet(k) : f[a] \in StoredValues(a)}} :
           k \in KeyOrders}

\* config.json: per attribute, the candidate doc types
ConfigChoices == {
    [firstName |-> <<"aadhaar", "marksheet">>, gender |-> <<"aadhaar">>,
     dob |-> <<"aadhaar", "marksheet">>],
    [firstName |-> <<"marksheet", "aadhaar">>, gender |-> <<"aadhaar", "marksheet">>] }

W3cFields == [firstName |-> PathFirst, gender |-> PathGender, dob |-> PathDob]

\* docToFieldMaps/<fileName>.json: the path variants per (vcType, format)
DocToFieldMaps ==
    [aadhaar |-> <<[vcType |-> "w3c", format |-> "json", fields |-> W3cFields],
                   [vcType |-> "digilocker", format |-> "json",
                    fields |-> [name |-> PathName, gender |-> PathGender, dob |-> PathDob]]>>,
     marksheet |-> <<[vcType |-> "w3c", format |-> "xml", fields |-> W3cFields],
                     [vcType |-> "w3c", format |-> "json",
                      fields |-> [firstName |-> PathFirst, dob |-> PathDob]]>>]

\* fieldValues.json: per categorical attribute, the synonyms of each value
GenderTable ==
    [gender |-> (<<"m">> :> << <<"m">>, <<"m", "m">> >>) @@ (<<"f">> :> << <<"f">> >>)]
\* the same table with one synonym written in upper case
GenderTableUpper ==
    [gender |-> (<<"m">> :> << <<"M">>, <<"m", "m">> >>) @@ (<<"f">> :> << <<"f">> >>)]
NoTable == <<>>

FieldValuesChoices == {GenderTable, GenderTableUpper, NoTable}

NameFieldsPosition == [aadhaar |-> [firstName |-> Num(0), middleName |-> Num(1), lastName |-> Num(2)]]

MatchUserData ==
    /\ fn = "none"
    /\ \E p \in Profiles, l \in MatchVCLists, c \in ConfigChoices, fv \in {GenderTable, NoTable} :
        \E r \in {matchUserData(p, l, c, DocToFieldMaps, fv, NameFieldsPosition)} :
           /\ userProfileInfo' = p /\ vcs' = l /\ config' = c /\ fieldValues' = fv
           /\ response' = r
    /\ docToFieldMaps' = DocToFieldMaps
    /\ nameFieldsPosition' = NameFieldsPosition
    /\ fn' = "matchUserData"
    /\ UNCHANGED <<serviceVars, transformVars, profileFields, vcPaths, userProfile, validationData,
                   consulted, argFileName, argAttribute, matched>>

GenderRaws ==
    {Str(s) : s \in Strings({"m", "M", "f"}, MaxGenderLen)} \cup {Null}

\* a profile with the one attribute attr, and a w3c aadhaar VC holding v for it
OneAttrProfile(attr, p) == [keys |-> <<attr>>, vals |-> (attr :> p)]
OneAttrVC(key, v) == MatchVC("aadhaar", "w3c", "json", Content(key :> v))

MatchAttributeValue ==
    /\ fn = "none"
    /\ \/ \E p \in DobRaws, v \in DobRaws :
            /\ argAttribute' = "dob"
            /\ userProfileInfo' = OneAttrProfile("dob", p)
            /\ vcs' = <<OneAttrVC(<<"d">>, v)>>
            /\ fieldValues' = NoTable
       \/ \E p \in GenderRaws, v \in GenderRaws, fv \in FieldValuesChoices :
            /\ argAttribute' = "gender"
            /\ userProfileInfo' = OneAttrProfile("gender", p)
            /\ vcs' = <<OneAttrVC(<<"g">>, v)>>
            /\ fieldValues' = fv
    /\ argFileName' = "aadhaar"
    /\ docToFieldMaps' = DocToFieldMaps
    /\ nameFieldsPosition' = NameFieldsPosition
    /\ matched' = matchAttributeValue(argFileName', argAttribute', vcs', userProfileInfo'.vals,
                                      docToFieldMaps', fieldValues', nameFieldsPosition')
    /\ fn' = "matchAttributeValue"
    /\ UNCHANGED <<serviceVars, transformVars, profileFields, vcPaths, userProfile, validationData,
                   consulted, config, response>>

NextMatch == MatchUserData \/ MatchAttributeValue

SpecMatch == Init /\ [][NextMatch]_vars

-----------------------------------------------------------------------------
(* Claims about the validator (checked under SpecMatch) *)

Returned == fn = "matchUserData" /\ response # Threw

\* whether the candidate doc type matches the attribute, by a call of its own
Matches(attr, file) ==
    matchAttributeValue(file, attr, vcs, userProfileInfo.vals, docToFieldMaps,
                        fieldValues, nameFieldsPosition) = Bool(TRUE)

MatchingCandidates(attr) == SelectSeq(config[attr], LAMBDA file : Matches(attr, file))

\* C2: for every attribute of the profile every candidate doc type is
\* evaluated: verified is true iff at least one candidate matches, and
\* docsUsed lists exactly the matching candidates in configuration order.
C2_AllCandidatesEvaluated ==
    Returned =>
        \A i \in 1..Len(response.list) :
            LET res == response.list[i] IN
            /\ res.docsUsed = MatchingCandidates(res.attribute)
            /\ res.verified = (\E k \in 1..Len(config[res.attribute]) :
                                   Matches(res.attribute, config[res.attribute][k]))

\* the first candidate mismatches and the second matches
C2_Witness ==
    /\ Returned
    /\ \E i \in 1..Len(response.list) :
        LET res == response.list[i] IN
        /\ Len(config[res.attribute]) = 2
        /\ ~Matches(res.attribute, config[res.attribute][1])
        /\ HasVC(config[res.attribute][1])
        /\ res.verified /\ res.docsUsed = <<config[res.attribute][2]>>

\* both candidates match, and no candidate at all matches
C2_WitnessBoth ==
    /\ Returned
    /\ \E i \in 1..Len(response.list) : Len(response.list[i].docsUsed) = 2
    /\ \E i \in 1..Len(response.list) :
        ~response.list[i].verified /\ response.list[i].docsUsed = <<>>

\* C4: the response holds exactly one result per key of the profile, in key
\* order, and no result for any other attribute.
C4_OneResultPerKey ==
    Returned =>
        /\ Len(response.list) = Len(userProfileInfo.keys)
        /\ \A i \in 1..Len(response.list) :
            response.list[i].attribute = userProfileInfo.keys[i]

C4_Witness ==
    /\ Returned
    /\ Len(userProfileInfo.keys) = 3
    /\ \E i \in 1..3 : ~response.list[i].verified
    /\ \E i \in 1..3 : response.list[i].verified

\* the calendar date a string of one of the parser's four formats denotes
DateOf(s) ==
    IF IsDMYShape(s, "-") \/ IsDMYShape(s, "/")
    THEN <<DecVal(SubSeq(s, 7, 10)), DecVal(SubSeq(s, 4, 5)), DecVal(SubSeq(s, 1, 2))>>
    ELSE IF IsYMDShape(s, "-") \/ IsYMDShape(s, "/")
    THEN <<DecVal(SubSeq(s, 1, 4)), DecVal(SubSeq(s, 6, 7)), DecVal(SubSeq(s, 9, 10))>>
    ELSE <<>>

DobCall ==
    /\ fn = "matchAttributeValue" /\ argAttribute = "dob"
    /\ IsStr(userProfileInfo.vals["dob"]) /\ IsStr(vcs[1].content.o[<<"c">>].o[<<"d">>])

StoredDob == userProfileInfo.vals["dob"].s
VcDob == vcs[1].content.o[<<"c">>].o[<<"d">>].s

\* C5 as stated: a stored dob and a VC dob that denote the same date, each in
\* any of the parser's formats, are reported as a match.
C5_SameDateMatches ==
    (DobCall /\ DateOf(StoredDob) # <<>> /\ DateOf(StoredDob) = DateOf(VcDob))
        => matched = Bool(TRUE)

\* what the code does: only the VC value is normalized, YYYY/MM/DD keeps its
\* slashes, and the result is compared with the stored value as it is
C5_OnlyVcValueNormalized ==
    (DobCall /\ DateOf(VcDob) # <<>>) =>
        matched = Bool(\/ /\ ~IsYMDShape(VcDob, "/")
                          /\ IsYMDShape(StoredDob, "-") /\ DateOf(StoredDob) = DateOf(VcDob)
                       \/ IsYMDShape(VcDob, "/") /\ StoredDob = VcDob)

\* stored "2003-05-08" against the VC value "2003/05/08" is no match
C5_SlashDateMismatch ==
    /\ DobCall
    /\ StoredDob = <<"2", "0", "0", "3", "-", "0", "5", "-", "0", "8">>
    /\ VcDob = <<"2", "0", "0", "3", "/", "0", "5", "/", "0", "8">>
    /\ matched = Bool(FALSE)

GenderCall ==
    /\ fn = "matchAttributeValue" /\ argAttribute = "gender"
    /\ fieldValues # NoTable

SameLetters(a, b) == IsStr(a) /\ IsStr(b) /\ toLowerCase(a.s) = toLowerCase(b.s)

\* the verdict of the call for another stored value, VC value and table
VerdictFor(p, v, table) ==
    matchAttributeValue("aadhaar", "gender", <<OneAttrVC(<<"g">>, v)>>,
                        OneAttrProfile("gender", p).vals, docToFieldMaps, table,
                        nameFieldsPosition)

\* tables that differ from t in the letter case of synonyms only
CaseVariantsOf(t) ==
    {u \in FieldValuesChoices :
        /\ u # NoTable
        /\ DOMAIN u["gender"] = DOMAIN t["gender"]
        /\ \A k \in DOMAIN t["gender"] :
            /\ Len(u["gender"][k]) = Len(t["gender"][k])
            /\ \A i \in 1..Len(t["gender"][k]) :
                toLowerCase(u["gender"][k][i]) = toLowerCase(t["gender"][k][i])}

\* C6 as stated: changing the letter case of the stored profile value, of the
\* VC value or of a synonym in the table never changes the verdict.
C6_CaseNeverMatters ==
    GenderCall =>
        \A p \in GenderRaws, v \in GenderRaws, t \in CaseVariantsOf(fieldValues) :
            (SameLetters(p, userProfileInfo.vals["gender"]) /\ SameLetters(v, vcs[1].content.o[<<"c">>].o[<<"g">>]))
                => VerdictFor(p, v, t) = matched

\* C6 amended: the match is membership of the lower-cased VC value in the
\* synonym list found under the lower-cased stored value; changing the letter
\* case of the stored value or of the VC value never changes the verdict (the
\* table's keys and synonyms are compared as written).
C6_CaseOfOperandsNeverMatters ==
    GenderCall =>
        /\ \A p \in GenderRaws, v \in GenderRaws :
            (SameLetters(p, userProfileInfo.vals["gender"]) /\ SameLetters(v, vcs[1].content.o[<<"c">>].o[<<"g">>]))
                => VerdictFor(p, v, fieldValues) = matched
        /\ LET p == userProfileInfo.vals["gender"]
               v == vcs[1].content.o[<<"c">>].o[<<"g">>]
           IN (IsStr(p) /\ IsStr(v) /\ toLowerCase(p.s) \in DOMAIN fieldValues["gender"])
                => matched = Bool(\E i \in 1..Len(fieldValues["gender"][toLowerCase(p.s)]) :
                                     fieldValues["gender"][toLowerCase(p.s)][i] = toLowerCase(v.s))

\* stored "M" matches the VC value "m" under the lower-case table
C6_Witness ==
    /\ GenderCall /\ fieldValues = GenderTable
    /\ userProfileInfo.vals["gender"] = Str(<<"M">>)
    /\ vcs[1].content.o[<<"c">>].o[<<"g">>] = Str(<<"m">>)
    /\ matched = Bool(TRUE)

-----------------------------------------------------------------------------
(* Specification of the batch: populateProfile is applied once to any list  *)
(* of users; every awaited call of a user's processing succeeds or fails    *)

MaxUsers == 3

UserIds == 1..2
UserLists == UNION {[1..k -> UserIds] : k \in 0..MaxUsers}

\* the for loop's advance after the user at `position` of `count` users
nextStep(position, count) == IF position >= count THEN "done" ELSE "docs"

\* a handler that gives up the batch at the first failure
catchUserError_abort(position, count) == "done"

\* the catch block of the loop body: log, then `continue`
catchUserError(position, count) == nextStep(position, count)

Running(u) == [user |-> u, result |-> "running"]
Finish(list, result) == [list EXCEPT ![Len(list)].result = result]

PopulateProfile ==
    /\ fn = "none" /\ pc = "idle"
    /\ \E us \in UserLists : batch' = us
    /\ pc' = "token" /\ fn' = "populateProfile"
    /\ UNCHANGED <<transformVars, builderVars, validatorVars, docVars, docStoreVars, registrationVars, cronVars, txVars,
                   batchPos, attempted, logged, returned>>

\* keycloakService.getAdminKeycloakToken(): a failure is caught by the outer
\* catch, which logs and returns the error
GetAdminKeycloakToken ==
    /\ pc = "token"
    /\ \/ /\ batchPos' = 1
          /\ pc' = nextStep(0, Len(batch))
          /\ returned' = (IF batch = <<>> THEN Undefined ELSE returned)
       \/ /\ pc' = "done" /\ returned' = Threw
          /\ UNCHANGED batchPos
    /\ UNCHANGED <<fn, transformVars, builderVars, validatorVars, docVars, docStoreVars, registrationVars, cronVars, txVars,
                   batch, attempted, logged>>

\* the end of one user's processing
UserDone(result) ==
    /\ attempted' = Finish(attempted, result)
    /\ logged' = (IF result = "failed" THEN Append(logged, batch[batchPos]) ELSE logged)
    /\ pc' = (IF result = "failed" THEN catchUserError(batchPos, Len(batch))
              ELSE nextStep(batchPos, Len(batch)))
    /\ batchPos' = batchPos + 1
    /\ returned' = (IF pc' = "done" THEN Undefined ELSE returned)

GetUserDocs ==
    /\ pc = "docs"
    /\ \/ /\ attempted' = Append(attempted, Running(batch[batchPos]))
          /\ pc' = "build"
          /\ UNCHANGED <<batchPos, logged, returned>>
       \/ /\ \E a \in {Append(attempted, Running(batch[batchPos]))} :
                attempted' = Finish(a, "failed")
          /\ logged' = Append(logged, batch[batchPos])
          /\ pc' = catchUserError(batchPos, Len(batch))
          /\ batchPos' = batchPos + 1
          /\ returned' = (IF pc' = "done" THEN Undefined ELSE returned)
    /\ UNCHANGED <<fn, transformVars, builderVars, validatorVars, docVars, docStoreVars, registrationVars, cronVars, txVars, batch>>

\* buildVCs and buildProfile of the user's documents
BuildUserProfile ==
    /\ pc = "build"
    /\ \/ /\ pc' = "update"
          /\ UNCHANGED <<batchPos, attempted, logged, returned>>
       \/ UserDone("failed")
    /\ UNCHANGED <<fn, transformVars, builderVars, validatorVars, docVars, docStoreVars, registrationVars, cronVars, txVars, batch>>

UpdateDatabase ==
    /\ pc = "update"
    /\ \/ UserDone("ok")
       \/ UserDone("failed")
    /\ UNCHANGED <<fn, transformVars, builderVars, validatorVars, docVars, docStoreVars, registrationVars, cronVars, txVars, batch>>

NextPopulate ==
    \/ PopulateProfile \/ GetAdminKeycloakToken
    \/ GetUserDocs \/ BuildUserProfile \/ UpdateDatabase

\* every awaited promise settles, so a started call takes its next step
SpecPopulate == Init /\ [][NextPopulate]_vars /\ WF_vars(NextPopulate)

-----------------------------------------------------------------------------
(* Claims about the batch (checked under SpecPopulate) *)

UsersOf(list) == [k \in 1..Len(list) |-> list[k].user]

FailedOf(list) ==
    LET F(e) == e.result = "failed" IN UsersOf(SelectSeq(list, F))

\* the users attempted so far are the first users of the batch, in list
\* order, and the log holds exactly the users whose processing failed
InOrderAndLogged ==
    /\ Len(attempted) <= Len(batch)
    /\ UsersOf(attempted) = SubSeq(batch, 1, Len(attempted))
    /\ logged = FailedOf(attempted)

Attempted(i) == Len(attempted) >= i /\ attempted[i].user = batch[i]

\* C14 as stated: populateProfile attempts every user of the list, in list
\* order, whatever fails: when the call is over, every user was attempted, and
\* each failure was logged.
C14_EveryUserAttempted ==
    /\ InOrderAndLogged
    /\ pc = "done" => \A i \in 1..Len(batch) : Attempted(i)

\* C14 amended: once the admin token has been obtained, every user of the
\* list is eventually attempted, in list order, and a failure of a user's
\* documents, build or update is logged and the loop goes on; when the token
\* cannot be obtained no user is attempted and the error is returned.
C14_EveryUserAttemptedAfterToken ==
    /\ []InOrderAndLogged
    /\ \A i \in 1..MaxUsers :
          (pc = "docs" /\ i <= Len(batch)) ~> Attempted(i)
    /\ [](returned = Threw => attempted = <<>>)
    /\ []((pc = "done" /\ returned # Threw) => Len(attempted) = Len(batch))

\* the first user failed, was logged, and the user after it was attempted
C14_Witness ==
    /\ Len(attempted) >= 2
    /\ attempted[1].result = "failed" /\ logged # <<>> /\ logged[1] = batch[1]
    /\ attempted[2].user = batch[2]

\* the token could not be obtained: nothing attempted for a non-empty list
C14_TokenFailure ==
    pc = "done" /\ returned = Threw /\ batch # <<>> /\ attempted = <<>>

-----------------------------------------------------------------------------
(* Specification of the path resolvers: getValue and getAttributeValue are  *)
(* applied once to any content tree and any path                            *)

MaxPathLen == 2

TreeKeys == {<<"a">>, <<"b">>}
PathKeys == TreeKeys \cup {<<"z">>}

\* leaves: a text, a falsy number, JSON null
Leaves == {Str(<<"v">>), Num(0), Null}

ObjectsOver(values) ==
    {Obj(o) : o \in UNION {[K -> values] : K \in SUBSET TreeKeys}}

Trees1 == Leaves \cup ObjectsOver(Leaves)
ContentTrees == Leaves \cup ObjectsOver(Trees1)

RECURSIVE JoinDots(_)
JoinDots(segs) ==
    IF Len(segs) = 1 THEN Head(segs) ELSE Head(segs) \o <<".">> \o JoinDots(Tail(segs))

SegmentLists == UNION {[1..k -> PathKeys] : k \in 1..MaxPathLen}

\* configured paths, the empty path, and no configured path at all
ResolverPaths == {Str(JoinDots(segs)) : segs \in SegmentLists} \cup {Str(<<>>), Undefined}

GetValue ==
    /\ fn = "none"
    /\ \E tree \in ContentTrees, pathValue \in ResolverPaths :
        /\ rawValue' = tree /\ field' = pathValue
        /\ vcs' = <<[docType |-> "aadhaar", content |-> tree]>>
        /\ out' = getValue(vcs'[1], pathValue)
    /\ fn' = "getValue"
    /\ UNCHANGED <<validatorVars, serviceVars, profileFields, vcPaths,
                   userProfile, validationData, consulted>>

GetAttributeValue ==
    /\ fn = "none"
    /\ \E tree \in ContentTrees, pathValue \in ResolverPaths, docFormat \in {"json", "pdf"} :
        /\ rawValue' = tree /\ field' = pathValue
        /\ vcs' = <<[docType |-> "aadhaar", vcType |-> "w3c", docFormat |-> docFormat,
                     content |-> tree]>>
        /\ out' = getAttributeValue(vcs'[1], pathValue)
    /\ fn' = "getAttributeValue"
    /\ UNCHANGED <<validatorVars, serviceVars, profileFields, vcPaths,
                   userProfile, validationData, consulted>>

NextResolve == GetValue \/ GetAttributeValue

SpecResolve == Init /\ [][NextResolve]_vars

-----------------------------------------------------------------------------
(* Claims about the path resolvers (checked under SpecResolve) *)

ResolveCase == fn \in {"getValue", "getAttributeValue"}

\* the segments of a configured path
Segments(pathValue) == Split(pathValue.s, ".")

\* whether every segment of segs exists from tree on
RECURSIVE EverySegmentExists(_, _)
EverySegmentExists(tree, segs) ==
    \/ segs = <<>>
    \/ /\ IsObj(tree) /\ Head(segs) \in DOMAIN tree.o
       /\ EverySegmentExists(tree.o[Head(segs)], Tail(segs))

\* the value at the end of an existing path
RECURSIVE NestedValue(_, _)
NestedValue(tree, segs) ==
    IF segs = <<>> THEN tree ELSE NestedValue(tree.o[Head(segs)], Tail(segs))

Absent(v) == v \in {Null, Undefined}

\* what C16 asks of one resolver call
ResolvesOrAbsent ==
    /\ out # Threw
    /\ IF IsStr(field) /\ EverySegmentExists(rawValue, Segments(field))
       THEN out = NestedValue(rawValue, Segments(field))
       ELSE Absent(out)

\* C16: each resolver, on any content tree and any dot-delimited path,
\* returns the nested value when every segment exists, and null or absent,
\* without raising, when the path is not configured or a segment is missing.
C16_ResolversNeverRaise ==
    ResolveCase => ResolvesOrAbsent

\* the builder's resolver does what C16 says
C16_BuilderResolver ==
    fn = "getValue" => ResolvesOrAbsent

\* the validator's resolver raises when no path is configured
C16_ValidatorRaises ==
    /\ fn = "getAttributeValue" /\ vcs[1].docFormat = "json"
    /\ field = Undefined /\ out = Threw

-----------------------------------------------------------------------------
(* Specification of the document store: calls of createUserDocsNew, one     *)
(* after the other, each with a list of DTOs (the DTO at hand is drawn when *)
(* its processing starts), each step succeeding or failing; SpecDocs adds   *)
(* the calls of createUserDoc and createUserDocs                             *)

MaxUploads == 2
MaxDtos == 2

\* a DTO that carries no user_id
NoUser == 0

DocUsers == 1..2
DocKinds == {[doc_type |-> "idProof", doc_subtype |-> "aadhaar"],
             [doc_type |-> "marksProof", doc_subtype |-> "marksheet"]}

\* CreateUserDocDTO: the user_id it carries may be absent, the caller's or
\* another user's
Dtos == {[user_id |-> u, doc_type |-> k.doc_type, doc_subtype |-> k.doc_subtype] :
            u \in DocUsers \cup {NoUser}, k \in DocKinds}

\* a row of user_docs; doc_id is generated; caller and verified record who
\* made the call and whether verifyVcWithApi had succeeded for the document
NewDocId(rows) == IF rows = {} THEN 1 ELSE 1 + (CHOOSE m \in {r.doc_id : r \in rows} :
                                                   \A r \in rows : r.doc_id <= m)
Row(rows, dto, userId, caller, verified) ==
    [doc_id |-> NewDocId(rows), user_id |-> userId, doc_type |-> dto.doc_type,
     doc_subtype |-> dto.doc_subtype, caller |-> caller, verified |-> verified]

\* userDocsRepository.findOne({where: {user_id, doc_type, doc_subtype}})
Found(rows, userId, dto) ==
    {r \in rows : r.user_id = userId /\ r.doc_type = dto.doc_type
                  /\ r.doc_subtype = dto.doc_subtype}

CurrentDto == upload.dto

\* the call is over: it returned or raised
EndOfCall ==
    /\ upload' = Idle
    /\ uploadsDone' = uploadsDone + 1
    /\ uploadEnded' = [user |-> upload.user, stored |-> upload.stored,
                       updateProfile |-> upload.step = "updateProfile"]

CanStart == upload = Idle /\ uploadsDone < MaxUploads /\ fn \in {"none", "userDocs"}

CreateUserDocsNew ==
    /\ CanStart
    /\ \E u \in DocUsers, n \in 1..MaxDtos, dto \in Dtos :
        upload' = [user |-> u, count |-> n, idx |-> 1, dto |-> dto, step |-> "verify",
                   verification |-> "none", existing |-> 0, stored |-> 0]
    /\ fn' = "userDocs"
    /\ UNCHANGED <<transformVars, builderVars, validatorVars, docVars, batchVars, registrationVars, cronVars, txVars,
                   store, uploadsDone, uploadEnded>>

\* verifyVcWithApi: a failure raises BadRequestException, which ends the call
VerifyVcWithApi ==
    /\ upload # Idle /\ upload.step = "verify"
    /\ \/ /\ upload' = [upload EXCEPT !.verification = "success", !.step = "find"]
          /\ UNCHANGED <<uploadsDone, uploadEnded>>
       \/ EndOfCall
    /\ UNCHANGED <<fn, transformVars, builderVars, validatorVars, docVars, batchVars, registrationVars, cronVars, txVars, store>>

\* the lookup of an existing document, by the caller's user_id
FindExistingDoc ==
    /\ upload # Idle /\ upload.step = "find"
    /\ LET found == Found(store, upload.user, CurrentDto)
       IN IF found = {}
          THEN upload' = [upload EXCEPT !.existing = 0, !.step = "save"]
          ELSE \E r \in found :
                  upload' = [upload EXCEPT !.existing = r.doc_id, !.step = "delete"]
    /\ UNCHANGED <<fn, transformVars, builderVars, validatorVars, docVars, batchVars, registrationVars, cronVars, txVars,
                   store, uploadsDone, uploadEnded>>

\* deleteDoc(existingDoc): a failure is rolled back and raised
DeleteDoc ==
    /\ upload # Idle /\ upload.step = "delete"
    /\ \/ /\ store' = {r \in store : r.doc_id # upload.existing}
          /\ upload' = [upload EXCEPT !.step = "save"]
          /\ UNCHANGED <<uploadsDone, uploadEnded>>
       \/ /\ EndOfCall
          /\ UNCHANGED store
    /\ UNCHANGED <<fn, transformVars, builderVars, validatorVars, docVars, batchVars, registrationVars, cronVars, txVars>>

\* the user_id saved: the DTO's own, the caller's when the DTO has none
savedUserId(dto, caller) == IF dto.user_id = NoUser THEN caller ELSE dto.user_id

\* saveDoc: a failure is logged and null returned; then the next DTO, or
\* after the last one the profile update
SaveDoc ==
    /\ upload # Idle /\ upload.step = "save"
    /\ \E saved \in BOOLEAN :
          /\ store' = IF saved
                      THEN store \cup {Row(store, CurrentDto,
                                           savedUserId(CurrentDto, upload.user), upload.user,
                                           upload.verification = "success")}
                      ELSE store
          /\ IF upload.idx < upload.count
             THEN \E dto \in Dtos :
                    upload' = [upload EXCEPT !.idx = upload.idx + 1, !.dto = dto,
                                             !.step = "verify", !.verification = "none",
                                             !.existing = 0,
                                             !.stored = IF saved THEN @ + 1 ELSE @]
             ELSE upload' = [upload EXCEPT !.step = "updateProfile",
                                           !.stored = IF saved THEN @ + 1 ELSE @]
    /\ UNCHANGED <<uploadsDone, uploadEnded>>
    /\ UNCHANGED <<fn, transformVars, builderVars, validatorVars, docVars, batchVars, registrationVars, cronVars, txVars>>

\* updateProfile(userDetails), once every DTO was processed: the rebuild is
\* attempted, its failure logged; then the saved documents are returned
UpdateProfile ==
    /\ upload # Idle /\ upload.step = "updateProfile"
    /\ EndOfCall
    /\ UNCHANGED <<fn, transformVars, builderVars, validatorVars, docVars, batchVars,
                   registrationVars, cronVars, txVars, store>>

NextUpload ==
    \/ CreateUserDocsNew \/ VerifyVcWithApi \/ FindExistingDoc \/ DeleteDoc \/ SaveDoc
    \/ UpdateProfile

SpecUpload == Init /\ [][NextUpload]_vars

\* createUserDoc(dto): the row is created and saved as the DTO gives it; a
\* DTO without user_id is refused by the database and an error returned
CreateUserDoc ==
    /\ CanStart
    /\ \E dto \in Dtos :
        store' = (IF dto.user_id = NoUser THEN store
                  ELSE store \cup {Row(store, dto, dto.user_id, dto.user_id, FALSE)})
    /\ fn' = "userDocs"
    /\ uploadsDone' = uploadsDone + 1
    /\ UNCHANGED <<transformVars, builderVars, validatorVars, docVars, batchVars, registrationVars, cronVars, txVars, upload,
                   uploadEnded>>

\* getSavedAndExistingDocs: each DTO whose (user_id, doc_type, doc_subtype)
\* has no row is saved; the others are left as they are
RECURSIVE getSavedAndExistingDocs(_, _)
getSavedAndExistingDocs(dtos, rows) ==
    IF dtos = <<>> THEN rows
    ELSE LET dto == Head(dtos)
         IN IF Found(rows, dto.user_id, dto) # {}
            THEN getSavedAndExistingDocs(Tail(dtos), rows)
            ELSE getSavedAndExistingDocs(Tail(dtos),
                    rows \cup {Row(rows, dto, dto.user_id, dto.user_id, FALSE)})

\* createUserDocs(dtos), for DTOs that carry a user_id
CreateUserDocs ==
    /\ CanStart
    /\ \E dtos \in UNION {[1..n -> {d \in Dtos : d.user_id # NoUser}] : n \in 1..MaxDtos} :
        store' = getSavedAndExistingDocs(dtos, store)
    /\ fn' = "userDocs"
    /\ uploadsDone' = uploadsDone + 1
    /\ UNCHANGED <<transformVars, builderVars, validatorVars, docVars, batchVars, registrationVars, cronVars, txVars, upload,
                   uploadEnded>>

NextDocs == NextUpload \/ CreateUserDoc \/ CreateUserDocs

SpecDocs == Init /\ [][NextDocs]_vars

-----------------------------------------------------------------------------
(* Claims about the document store *)

SameCombination(r, q) ==
    r.user_id = q.user_id /\ r.doc_type = q.doc_type /\ r.doc_subtype = q.doc_subtype

\* C18: after any sequence of uploads through createUserDocsNew the store
\* holds at most one document per (user_id, doc_type, doc_subtype).
\* (checked under SpecUpload)
C18_OneDocPerCombination ==
    \A r \in store, q \in store : SameCombination(r, q) => r = q

\* two uploads by one user of a DTO carrying another user's id leave two
\* documents for that user's combination
C18_DuplicateForOtherUser ==
    \E r \in store, q \in store :
        /\ r # q /\ SameCombination(r, q)
        /\ r.caller = q.caller /\ r.caller # r.user_id

\* C19: every document in the store was written after verifyVcWithApi had
\* succeeded for it, whichever operation of UserService saved it.
\* (checked under SpecDocs)
C19_VerifiedBeforeSave ==
    \A r \in store : r.verified

\* a document saved by createUserDoc or createUserDocs, unverified
C19_SavedUnverified ==
    upload = Idle /\ \E r \in store : ~r.verified

-----------------------------------------------------------------------------
(* Specification of the registration: calls of createUserInfo, one after    *)
(* the other, each remote or database step succeeding or failing             *)

MaxRegistrations == 3

\* the call is over: createUserInfo returned (a row or null) or raised
EndOfRegistration ==
    /\ registration' = Idle
    /\ registrationsDone' = registrationsDone + 1

otherVarsOfRegistration ==
    <<fn, transformVars, builderVars, validatorVars, docVars, batchVars, docStoreVars,
      cronVars, txVars>>

\* createUserInfo(dto) calls registerUserWithUsername(dto); the person
\* registering is new, the Keycloak id is the one Keycloak will hand out
CreateUserInfo ==
    /\ registration = Idle /\ registrationsDone < MaxRegistrations
    /\ fn \in {"none", "registration"}
    /\ registration' = [keycloak_id |-> registrationsDone + 1, step |-> "token"]
    /\ fn' = "registration"
    /\ UNCHANGED <<transformVars, builderVars, validatorVars, docVars, batchVars,
                   docStoreVars, cronVars, txVars, keycloakAccounts, dbUsers, userInfos,
                   registrationsDone,
                   deleteUserFailed>>

\* getAdminKeycloakToken, outside the try block: a failure is raised to
\* createUserInfo, which raises 'Could not create user info'
GetRegistrationToken ==
    /\ registration # Idle /\ registration.step = "token"
    /\ \/ /\ registration' = [registration EXCEPT !.step = "keycloak"]
          /\ UNCHANGED registrationsDone
       \/ EndOfRegistration
    /\ UNCHANGED <<otherVarsOfRegistration, keycloakAccounts, dbUsers, userInfos,
                   deleteUserFailed>>

\* keycloakService.registerUser: the account is created and its location
\* returned, or an error (a conflict, any other) or no location is returned,
\* or the call raises; without an account the call ends with null
RegisterUser ==
    /\ registration # Idle /\ registration.step = "keycloak"
    /\ \/ /\ keycloakAccounts' = keycloakAccounts \cup {registration.keycloak_id}
          /\ registration' = [registration EXCEPT !.step = "database"]
          /\ UNCHANGED registrationsDone
       \/ /\ EndOfRegistration
          /\ UNCHANGED keycloakAccounts
    /\ UNCHANGED <<otherVarsOfRegistration, dbUsers, userInfos, deleteUserFailed>>

\* createKeycloakData: the users row is saved, or the save fails and the
\* catch block deletes the Keycloak account (deleteUser may fail in turn,
\* which is raised); after a failure the call ends with null or raises
CreateKeycloakData ==
    /\ registration # Idle /\ registration.step = "database"
    /\ \/ /\ dbUsers' = dbUsers \cup {registration.keycloak_id}
          /\ registration' = [registration EXCEPT !.step = "userInfo"]
          /\ UNCHANGED <<keycloakAccounts, registrationsDone, deleteUserFailed>>
       \/ /\ keycloakAccounts' = keycloakAccounts \ {registration.keycloak_id}
          /\ EndOfRegistration
          /\ UNCHANGED <<dbUsers, deleteUserFailed>>
       \/ /\ deleteUserFailed' = deleteUserFailed \cup {registration.keycloak_id}
          /\ EndOfRegistration
          /\ UNCHANGED <<keycloakAccounts, dbUsers>>
    /\ UNCHANGED <<otherVarsOfRegistration, userInfos>>

\* userInfoRepository.save(userInfo): a failure is caught, logged and raised
\* as 'Could not create user info'
SaveUserInfo ==
    /\ registration # Idle /\ registration.step = "userInfo"
    /\ \/ userInfos' = userInfos \cup {registration.keycloak_id}
       \/ UNCHANGED userInfos
    /\ EndOfRegistration
    /\ UNCHANGED <<otherVarsOfRegistration, keycloakAccounts, dbUsers, deleteUserFailed>>

NextRegister ==
    \/ CreateUserInfo \/ GetRegistrationToken \/ RegisterUser
    \/ CreateKeycloakData \/ SaveUserInfo

SpecRegister == Init /\ [][NextRegister]_vars

-----------------------------------------------------------------------------
(* Claims about the registration (checked under SpecRegister) *)

\* the Keycloak accounts of the calls that are over
SettledAccounts ==
    IF registration = Idle THEN keycloakAccounts
    ELSE keycloakAccounts \ {registration.keycloak_id}

\* C20: no registration that is over leaves a Keycloak account without its
\* database user and its user_info record: a failure after the account was
\* created (users insert, user_info insert) deletes the account. An account
\* whose deletion was attempted and refused by Keycloak is not counted.
C20_NoOrphanAccount ==
    \A k \in SettledAccounts \ deleteUserFailed : k \in dbUsers /\ k \in userInfos

\* the part that holds: a failed users insert leaves no account behind
\* unless Keycloak refused the deletion
C20_FailedInsertDeletesAccount ==
    \A k \in SettledAccounts \ deleteUserFailed : k \in dbUsers

\* the users insert succeeded, the user_info insert failed: the account and
\* the users row stay
C20_AccountWithoutUserInfo ==
    /\ registration = Idle
    /\ \E k \in keycloakAccounts : k \in dbUsers /\ k \notin userInfos

-----------------------------------------------------------------------------
(* Specification of the application status cron: applications are submitted  *)
(* and resubmitted, runs of updateApplicationStatusCron start every minute    *)
(* and may overlap, each fetched application is handled by its own callback   *)

MaxApplications == 2
MaxCronRuns == 2

ApplicationIds == 1..MaxApplications

Pending == <<"p", "e", "n", "d", "i", "n", "g">>
Rejected == <<"r", "e", "j", "e", "c", "t", "e", "d">>
Disbursed == <<"d", "i", "s", "b", "u", "r", "s", "e", "d">>
AmountReceived == <<"a", "m", "o", "u", "n", "t", " ", "r", "e", "c", "e", "i", "v", "e", "d">>
ProviderApproved == <<"A", "p", "p", "r", "o", "v", "e", "d">>
ProviderRejected == <<"R", "E", "J", "E", "C", "T", "E", "D">>

\* the statuses named by the filter of getApplications
TerminalStatuses == {AmountReceived, Rejected, Disbursed}

\* the statuses a submission carries
SubmittedStatuses == {Pending, Rejected, Disbursed}

\* what getStatus returns: null, or the parsed object with or without a status
StatusDatas == {Null, Obj([status |-> Undefined]),
                Obj([status |-> Str(ProviderApproved)]),
                Obj([status |-> Str(ProviderRejected)])}

\* find({where: {status: Not(In([...]))}}): the rows whose status is none of
\* the three, with the status each has now
getApplications_unfiltered(rows) == rows

getApplications(rows) ==
    [id \in {i \in DOMAIN rows : rows[i] \notin TerminalStatuses} |-> rows[id]]

otherVarsOfCron ==
    <<transformVars, builderVars, validatorVars, docVars, batchVars, docStoreVars,
      registrationVars, txVars>>

\* createUserApplication: a new row, or the existing row of the same user
\* and benefit overwritten with the values of the DTO
CreateUserApplication ==
    /\ fn \in {"none", "cron"}
    /\ \E id \in ApplicationIds, status \in SubmittedStatuses :
          /\ id \in DOMAIN applications \/ id = Cardinality(DOMAIN applications) + 1
          /\ applications' = [i \in DOMAIN applications \cup {id} |->
                                 IF i = id THEN status ELSE applications[i]]
    /\ fn' = "cron"
    /\ UNCHANGED <<otherVarsOfCron, cronRuns>>

\* a run starts: getApplications (an empty list when find fails), then one
\* callback per fetched application, all started by Promise.all
UpdateApplicationStatusCron ==
    /\ fn \in {"none", "cron"}
    /\ Len(cronRuns) < MaxCronRuns
    /\ \E fetched \in {getApplications(applications), <<>>} :
          cronRuns' = Append(cronRuns,
              [atFetch |-> applications,
               fetched |-> fetched,
               step |-> [id \in DOMAIN fetched |-> "getStatus"],
               statusData |-> [id \in DOMAIN fetched |-> Null],
               queried |-> {}, written |-> {}])
    /\ fn' = "cron"
    /\ UNCHANGED <<otherVarsOfCron, applications>>

\* getStatus(application.external_application_id): the provider is asked;
\* the answer is parsed, or the call raises and this callback ends
GetStatus ==
    \E r \in 1..Len(cronRuns) : \E id \in DOMAIN cronRuns[r].fetched :
      /\ cronRuns[r].step[id] = "getStatus"
      /\ \/ \E d \in StatusDatas :
               cronRuns' = [cronRuns EXCEPT ![r].step[id] = "updateStatus",
                                            ![r].statusData[id] = d,
                                            ![r].queried = @ \cup {id}]
         \/ cronRuns' = [cronRuns EXCEPT ![r].step[id] = "done",
                                         ![r].queried = @ \cup {id}]
      /\ UNCHANGED <<fn, otherVarsOfCron, applications>>

\* updateStatus(application, statusData): nothing without a status; else the
\* fetched row is saved with the lowercased status, or the save fails and
\* the transaction is rolled back
UpdateStatus ==
    \E r \in 1..Len(cronRuns) : \E id \in DOMAIN cronRuns[r].fetched :
      LET d == cronRuns[r].statusData[id]
          hasStatus == d.t = "obj" /\ d.o.status.t = "str" /\ d.o.status.s # <<>>
      IN  /\ cronRuns[r].step[id] = "updateStatus"
          /\ \/ /\ ~hasStatus
                /\ cronRuns' = [cronRuns EXCEPT ![r].step[id] = "done"]
                /\ UNCHANGED applications
             \/ /\ hasStatus
                /\ applications' = [applications EXCEPT ![id] = toLowerCase(d.o.status.s)]
                /\ cronRuns' = [cronRuns EXCEPT ![r].step[id] = "done",
                                                ![r].written = @ \cup {id}]
             \/ /\ hasStatus
                /\ cronRuns' = [cronRuns EXCEPT ![r].step[id] = "done"]
                /\ UNCHANGED applications
          /\ UNCHANGED <<fn, otherVarsOfCron>>

NextCron ==
    \/ CreateUserApplication \/ UpdateApplicationStatusCron
    \/ GetStatus \/ UpdateStatus

SpecCron == Init /\ [][NextCron]_vars

-----------------------------------------------------------------------------
(* Claims about the application status cron (checked under SpecCron) *)

\* the applications whose stored status was terminal when run r fetched
TerminalAtFetch(r) ==
    {id \in DOMAIN cronRuns[r].atFetch : cronRuns[r].atFetch[id] \in TerminalStatuses}

\* C21: in each run of updateApplicationStatusCron the provider is asked
\* about, and a row is written for, only applications whose stored status
\* at fetch time is none of 'amount received', 'rejected', 'disbursed'; an
\* application terminal at fetch time is neither queried nor modified in
\* that run.
C21_OnlyNonTerminalProcessed ==
    \A r \in 1..Len(cronRuns) :
       /\ (cronRuns[r].queried \cup cronRuns[r].written) \subseteq DOMAIN cronRuns[r].atFetch
       /\ (cronRuns[r].queried \cup cronRuns[r].written) \cap TerminalAtFetch(r) = {}

\* a run that fetched while one application was terminal and another was
\* not, and has queried and written the other
C21_Witness ==
    \E r \in 1..Len(cronRuns) :
       /\ TerminalAtFetch(r) # {}
       /\ cronRuns[r].written # {}
       /\ cronRuns[r].written \subseteq cronRuns[r].queried

-----------------------------------------------------------------------------
(* Specification of the persistence operations that open a query runner:     *)
(* updateDatabase (its reset, handleUserInfo, its final save), updateStatus,  *)
(* deleteDoc and delete, every call on a runner succeeding or failing         *)

MaxOperations == 3

Dob1 == Str(<<"1">>)
Dob2 == Str(<<"2">>)

\* the built profiles handed to updateDatabase
BuiltProfiles == {[dob |-> Null], [dob |-> Dob1], [dob |-> Dob2]}

OperationNames == {"updateDatabase", "updateStatus", "deleteDoc", "delete"}

\* the runner blocks of updateDatabase, in the order it runs them
BlockNames == <<"queryRunner1", "handleUserInfo", "queryRunner">>

\* createQueryRunner()
NewRunner == [connected |-> FALSE, tx |-> "none", pending |-> Null, releases |-> 0,
              rollbackWithoutTx |-> FALSE, releasedUnfinished |-> FALSE]

\* startTransaction() is the first statement of the try block
startInTry(name) == name \in {"updateStatus", "deleteDoc", "delete"}

\* what the catch block calls on the runner
catchCall(name) == IF name = "delete" THEN "release" ELSE "rollback"

\* the catch block ends by raising (handleUserInfo, the final save of
\* updateDatabase, deleteDoc) or not (the reset, updateStatus, delete)
catchRaises(name, block) ==
    \/ name = "deleteDoc"
    \/ name = "updateDatabase" /\ BlockNames[block] # "queryRunner1"

\* cnt === 0: no field of the profile is falsy
profFilled(profile) == \A f \in DOMAIN profile : Truthy(profile[f])

\* userInfo?.dob?.toString()
dobToString(dob) == IF dob \in {Null, Undefined} THEN Undefined ELSE dob

\* save(row): a column whose property is undefined keeps what is stored
\* (null in a new row)
savedColumn(stored, value) == IF value = Undefined THEN stored ELSE value

\* the row each block of updateDatabase saves
blockWrite(block, profile, data, users, userInfo) ==
    CASE BlockNames[block] = "queryRunner1" ->
           [users |-> [users EXCEPT !.fieldsVerified = FALSE,
                                    !.fieldsVerificationData = Null]]
      [] BlockNames[block] = "handleUserInfo" ->
           [userInfo |-> [dob |-> savedColumn(IF userInfo = Idle THEN Null ELSE userInfo.dob,
                                              dobToString(profile.dob))]]
      [] BlockNames[block] = "queryRunner" ->
           [users |-> [dob |-> profile.dob,
                       fieldsVerified |-> profFilled(profile),
                       fieldsVerificationData |-> data]]

otherVarsOfPersistence ==
    <<fn, transformVars, builderVars, validatorVars, docVars, batchVars, docStoreVars,
      registrationVars, cronVars>>

CurrentRunner == runners[Len(runners)]

SetRunner(r) == [runners EXCEPT ![Len(runners)] = r]

Ended(raised) == [op EXCEPT !.step = "ended", !.raised = raised]

\* an operation is called and creates its (first) query runner
CreateQueryRunner ==
    /\ (IF op = Idle THEN TRUE ELSE op.step = "ended") /\ opsDone < MaxOperations
    /\ \E name \in OperationNames, profile \in BuiltProfiles :
          /\ name # "updateDatabase" => profile = [dob |-> Null]
          /\ op' = [name |-> name, block |-> 1, step |-> "connect", raised |-> FALSE,
                    profile |-> profile, data |-> Num(opsDone + 1),
                    before |-> [users |-> usersRow, userInfo |-> userInfoRow]]
    /\ runners' = <<NewRunner>>
    /\ opsDone' = opsDone + 1
    /\ UNCHANGED <<otherVarsOfPersistence, usersRow, userInfoRow>>

\* queryRunner.connect(), before any try block of the operation's own
Connect ==
    /\ op # Idle /\ op.step = "connect"
    /\ \/ /\ runners' = SetRunner([CurrentRunner EXCEPT !.connected = TRUE])
          /\ op' = [op EXCEPT !.step = "start"]
       \/ /\ op' = Ended(op.name # "updateStatus")
          /\ UNCHANGED runners
    /\ UNCHANGED <<otherVarsOfPersistence, usersRow, userInfoRow, opsDone>>

\* queryRunner.startTransaction(), inside the try block or before it
StartTransaction ==
    /\ op # Idle /\ op.step = "start"
    /\ \/ /\ runners' = SetRunner([CurrentRunner EXCEPT !.tx = "active"])
          /\ op' = [op EXCEPT !.step = "save"]
       \/ /\ op' = IF startInTry(op.name) THEN [op EXCEPT !.step = "catch"] ELSE Ended(TRUE)
          /\ UNCHANGED runners
    /\ UNCHANGED <<otherVarsOfPersistence, usersRow, userInfoRow, opsDone>>

\* queryRunner.manager.save(...) or remove(...) inside the transaction
ManagerSave ==
    /\ op # Idle /\ op.step = "save"
    /\ \/ /\ runners' = SetRunner([CurrentRunner EXCEPT !.pending =
                 IF op.name = "updateDatabase"
                 THEN Obj(blockWrite(op.block, op.profile, op.data,
                                     usersRow, userInfoRow))
                 ELSE Obj(<<>>)])
          /\ op' = [op EXCEPT !.step = "commit"]
       \/ /\ op' = [op EXCEPT !.step = "catch"]
          /\ UNCHANGED runners
    /\ UNCHANGED <<otherVarsOfPersistence, usersRow, userInfoRow, opsDone>>

\* queryRunner.commitTransaction(): the pending rows become the stored ones
CommitTransaction ==
    /\ op # Idle /\ op.step = "commit"
    /\ \/ LET w == CurrentRunner.pending.o
          IN  /\ usersRow' = IF "users" \in DOMAIN w THEN w.users ELSE usersRow
              /\ userInfoRow' = IF "userInfo" \in DOMAIN w THEN w.userInfo ELSE userInfoRow
              /\ runners' = SetRunner([CurrentRunner EXCEPT !.tx = "committed"])
              /\ op' = [op EXCEPT !.step = "finally"]
       \/ /\ op' = [op EXCEPT !.step = "catch"]
          /\ UNCHANGED <<runners, usersRow, userInfoRow>>
    /\ UNCHANGED <<otherVarsOfPersistence, opsDone>>

\* the catch block: rollbackTransaction() (which raises when no transaction
\* is active, and may fail), or in delete a release(); then the finally block
CatchBlock ==
    /\ op # Idle /\ op.step = "catch"
    /\ LET r == CurrentRunner
       IN  \/ /\ catchCall(op.name) = "rollback" /\ r.tx = "active"
              /\ \/ /\ runners' = SetRunner([r EXCEPT !.tx = "rolledBack"])
                    /\ op' = [op EXCEPT !.step = "finally",
                                        !.raised = catchRaises(op.name, op.block)]
                 \/ /\ runners' = SetRunner([r EXCEPT !.tx = "rollbackFailed"])
                    /\ op' = [op EXCEPT !.step = "finally", !.raised = TRUE]
           \/ /\ catchCall(op.name) = "rollback" /\ r.tx # "active"
              /\ runners' = SetRunner([r EXCEPT !.rollbackWithoutTx = TRUE])
              /\ op' = [op EXCEPT !.step = "finally", !.raised = TRUE]
           \/ /\ catchCall(op.name) = "release"
              /\ runners' = SetRunner([r EXCEPT !.releases = @ + 1,
                              !.releasedUnfinished = @ \/ r.tx = "active"])
              /\ op' = [op EXCEPT !.step = "finally", !.raised = FALSE]
    /\ UNCHANGED <<otherVarsOfPersistence, usersRow, userInfoRow, opsDone>>

\* the finally block: release(); then the exception goes on, or the next
\* block of updateDatabase creates its runner, or the operation returns
FinallyRelease ==
    /\ op # Idle /\ op.step = "finally"
    /\ LET r == [CurrentRunner EXCEPT !.releases = @ + 1,
                                      !.releasedUnfinished = @ \/ CurrentRunner.tx = "active"]
       IN  IF op.raised
           THEN /\ op' = Ended(op.name # "updateStatus")
                /\ runners' = SetRunner(r)
           ELSE IF op.name = "updateDatabase" /\ op.block < Len(BlockNames)
           THEN /\ op' = [op EXCEPT !.block = @ + 1, !.step = "connect"]
                /\ runners' = Append(SetRunner(r), NewRunner)
           ELSE /\ op' = Ended(FALSE)
                /\ runners' = SetRunner(r)
    /\ UNCHANGED <<otherVarsOfPersistence, usersRow, userInfoRow, opsDone>>

NextPersist ==
    \/ CreateQueryRunner \/ Connect \/ StartTransaction \/ ManagerSave
    \/ CommitTransaction \/ CatchBlock \/ FinallyRelease

SpecPersist == Init /\ [][NextPersist]_vars

-----------------------------------------------------------------------------
(* Claims about the persistence operations (checked under SpecPersist) *)

InUpdateDatabase == op # Idle /\ op.name = "updateDatabase"

\* the run of updateDatabase ended by raising
UpdateDatabaseFailed == InUpdateDatabase /\ op.step = "ended" /\ op.raised

\* the transaction of the given block of this run was committed
Committed(block) == Len(runners) >= block /\ runners[block].tx = "committed"

\* the verified state persisted now is the one from before this run
VerifiedFromBefore ==
    /\ op.before.users.fieldsVerified /\ usersRow.fieldsVerified
    /\ usersRow.fieldsVerificationData = op.before.users.fieldsVerificationData

\* C22: every invocation of updateDatabase has persisted the reset
\* (fieldsVerified = false, fieldsVerificationData = null) before it writes
\* any new profile data, and a run that fails never leaves the persisted
\* fieldsVerified = true from before the rebuild.
C22_ResetBeforeNewData ==
    InUpdateDatabase =>
       /\ (Committed(2) => Committed(1))
       /\ (UpdateDatabaseFailed => ~VerifiedFromBefore)

\* what holds: a run whose reset was committed and which then fails leaves
\* fieldsVerified = false and fieldsVerificationData = null
C22_CommittedResetStays ==
    (UpdateDatabaseFailed /\ Committed(1)) =>
       (~usersRow.fieldsVerified /\ usersRow.fieldsVerificationData = Null)

\* the save of the reset failed, user_info was written, the final save
\* failed: the person is still verified on the data from before
C22_StaleVerified ==
    /\ UpdateDatabaseFailed /\ VerifiedFromBefore
    /\ ~Committed(1) /\ Committed(2)

\* C26: in every operation that opens a query runner, on every path, no
\* rollback is issued for a transaction that was not started or was already
\* committed, no runner is released with a transaction neither committed
\* nor rolled back, and once the operation is over every runner that got
\* its connection was released exactly once.
C26_RunnerDiscipline ==
    \A i \in 1..Len(runners) :
       /\ ~runners[i].rollbackWithoutTx
       /\ ~runners[i].releasedUnfinished
       /\ runners[i].releases <= 1
       /\ (op.step = "ended" /\ runners[i].connected) => runners[i].releases = 1

\* startTransaction failed in handleUserInfo or updateDatabase: the runner
\* holds its connection and is never released
C26_NeverReleased ==
    /\ InUpdateDatabase /\ op.step = "ended"
    /\ \E i \in 1..Len(runners) : runners[i].connected /\ runners[i].releases = 0

\* startTransaction failed in updateStatus or deleteDoc: rollback is issued
\* though no transaction was started
C26_RollbackWithoutTransaction ==
    /\ op # Idle /\ op.name \in {"updateStatus", "deleteDoc"}
    /\ \E i \in 1..Len(runners) : runners[i].rollbackWithoutTx /\ runners[i].tx = "none"

\* a failure inside delete: the runner is released twice, its transaction
\* never rolled back
C26_ReleasedTwice ==
    /\ op # Idle /\ op.name = "delete"
    /\ \E i \in 1..Len(runners) : runners[i].releases = 2 /\ runners[i].releasedUnfinished

\* the profile columns of the two rows
ProfileColumns(users, userInfo) == <<users.dob, userInfo>>

\* the rows a run of updateDatabase that fails nowhere leaves
NewProfileColumns ==
    ProfileColumns(
        blockWrite(3, op.profile, op.data, op.before.users, op.before.userInfo).users,
        blockWrite(2, op.profile, op.data, op.before.users, op.before.userInfo).userInfo)

\* C27: after a failure of one of the steps of updateDatabase the store
\* holds, across the users row and the user_info row, either the previous
\* profile values in both or the new ones in both.
C27_AllOrNothing ==
    UpdateDatabaseFailed =>
       ProfileColumns(usersRow, userInfoRow) \in
           {ProfileColumns(op.before.users, op.before.userInfo), NewProfileColumns}

\* the final save failed: user_info holds the new values, users the
\* previous ones
C27_NewUserInfoOldUsers ==
    /\ UpdateDatabaseFailed
    /\ userInfoRow = NewProfileColumns[2] /\ userInfoRow # op.before.userInfo
    /\ usersRow.dob = op.before.users.dob /\ usersRow.dob # NewProfileColumns[1]

\* what holds: the reverse, new values in users beside the previous ones
\* in user_info, never happens
C27_NeverNewUsersOldUserInfo ==
    UpdateDatabaseFailed =>
       ~(/\ usersRow.dob = NewProfileColumns[1] /\ usersRow.dob # op.before.users.dob
         /\ userInfoRow = op.before.userInfo /\ userInfoRow # NewProfileColumns[2])

-----------------------------------------------------------------------------
(* Claims about the profile update after an upload (checked under SpecUpload) *)

\* C23: every createUserDocsNew call in which at least one document was
\* stored has attempted a profile rebuild (updateProfile) for that user
\* before it ended, whatever happened to the other documents of the request.
C23_StoredThenProfileUpdate ==
    (uploadEnded # Idle /\ uploadEnded.stored > 0) => uploadEnded.updateProfile

\* what holds: the rebuild is attempted only once every DTO of the request
\* was processed, so never by a call that raised on one of them
C23_RebuildAfterLastDto ==
    (upload # Idle /\ upload.step = "updateProfile") => upload.idx = upload.count

\* a call stored its first document and ended on the second without
\* attempting the rebuild
C23_StoredWithoutProfileUpdate ==
    /\ uploadEnded # Idle
    /\ uploadEnded.stored > 0 /\ ~uploadEnded.updateProfile

\* a call stored a document and attempted the rebuild
C23_StoredAndRebuilt ==
    /\ uploadEnded # Idle
    /\ uploadEnded.stored > 0 /\ uploadEnded.updateProfile

-----------------------------------------------------------------------------
(* Claims about the variants of a doc type and the values they resolve      *)
(* (checked under SpecMatch)                                                 *)

\* the variants of the doc type for which the VC set holds a VC, by position
VariantsWithVC(file) ==
    {i \in 1..Len(docToFieldMaps[file]) : findVariantVC(vcs, docToFieldMaps[file][i], file) # 0}

\* the first of them in configuration order
FirstVariantWithVC(file) ==
    CHOOSE i \in VariantsWithVC(file) : \A j \in VariantsWithVC(file) : i <= j

\* the VC of a variant
VCOfVariant(file, i) == vcs[findVariantVC(vcs, docToFieldMaps[file][i], file)]

\* the verdict of one variant taken alone
VariantVerdict(attr, file, i) ==
    matchWithVC(docToFieldMaps[file][i], VCOfVariant(file, i), attr, userProfileInfo.vals,
                fieldValues, nameFieldsPosition)

\* what the path of the attribute resolves to in the VC the verdict for the
\* doc type rests on
ResolvedInVC(attr, file) ==
    LET obj == docToFieldMaps[file][FirstVariantWithVC(file)]
        vc == VCOfVariant(file, FirstVariantWithVC(file))
    IN getAttributeValue(vc, IF attr \in NameAttributes /\ vc.vcType = "digilocker"
                             THEN Prop(obj.fields, "name")
                             ELSE Prop(obj.fields, attr))

DocsUsedOf(res) == {res.docsUsed[j] : j \in 1..Len(res.docsUsed)}

\* C24: matchUserData never reports an attribute as verified on the strength
\* of a VC in which the attribute's path resolves to no value: for every
\* profile, one whose stored value is null or undefined included, a
\* candidate doc type whose VC lacks the attribute is not in docsUsed.
C24_NoMatchOnMissingValue ==
    Returned =>
        \A i \in 1..Len(response.list) :
            \A file \in DocsUsedOf(response.list[i]) :
                ResolvedInVC(response.list[i].attribute, file) \notin {Undefined, Null}

\* what holds: for a stored value that is neither null nor undefined
C24_StoredValuePresent ==
    Returned =>
        \A i \in 1..Len(response.list) :
            LET res == response.list[i] IN
            userProfileInfo.vals[res.attribute] \notin {Undefined, Null} =>
                \A file \in DocsUsedOf(res) :
                    ResolvedInVC(res.attribute, file) \notin {Undefined, Null}

\* the stored first name is null and the VC has no first name: verified
C24_VerifiedOnMissingValue ==
    /\ Returned
    /\ \E i \in 1..Len(response.list) :
        LET res == response.list[i] IN
        /\ res.verified /\ userProfileInfo.vals[res.attribute] = Null
        /\ \E file \in DocsUsedOf(res) : ResolvedInVC(res.attribute, file) = Undefined

\* C25: within one candidate doc type the verdict is the one of the first
\* variant, in configuration order, that has a VC of its (docType, vcType,
\* docFormat): later variants are not evaluated even when that one
\* mismatches, and the verdict is false when no variant has a VC.
C25_FirstVariantDecides ==
    Returned =>
        \A i \in 1..Len(response.list) :
            LET res == response.list[i] IN
            \A k \in 1..Len(config[res.attribute]) :
                LET file == config[res.attribute][k] IN
                (file \in DocsUsedOf(res)) <=>
                    /\ VariantsWithVC(file) # {}
                    /\ VariantVerdict(res.attribute, file, FirstVariantWithVC(file)) = Bool(TRUE)

\* two variants of a doc type have a VC, the first mismatches, the second
\* alone would match: the doc type is not in docsUsed
C25_Witness ==
    /\ Returned
    /\ \E i \in 1..Len(response.list) :
        LET res == response.list[i] IN
        \E k \in 1..Len(config[res.attribute]) :
            LET file == config[res.attribute][k] IN
            /\ Cardinality(VariantsWithVC(file)) = 2
            /\ VariantVerdict(res.attribute, file, 1) = Bool(FALSE)
            /\ VariantVerdict(res.attribute, file, 2) = Bool(TRUE)
            /\ file \notin DocsUsedOf(res)

\* no variant of the candidate doc type has a VC while VCs of other doc
\* types are there: not in docsUsed
C25_WitnessNoVC ==
    /\ Returned /\ vcs # <<>>
    /\ \E i \in 1..Len(response.list) :
        LET res == response.list[i] IN
        \E k \in 1..Len(config[res.attribute]) :
            /\ VariantsWithVC(config[res.attribute][k]) = {}
            /\ config[res.attribute][k] \notin DocsUsedOf(res)

====
